---- MODULE Spec2Model ----
(***************************************************************************)
(* Verification model of two subsystems of itwinjs-core:                   *)
(*   - the iMdl tile decoder (core/frontend/src/imdl/ImdlParser.ts)        *)
(*   - the polygon wire offset engine                                      *)
(*     (core/geometry/src/curve/internalContexts/PolygonOffsetContext.ts)  *)
(*                                                                         *)
(* The decoder is modelled on byte buffers: a tile is a sequence of bytes  *)
(* laid out by an encoder, possibly truncated, and every header is read    *)
(* from the bytes at the stream cursor.  The scene JSON text is the one    *)
(* abstraction: its bytes are a token and the value it parses to is kept   *)
(* beside the buffer (sceneJson).                                          *)
(***************************************************************************)
EXTENDS Integers, Sequences, FiniteSets, TLC

VARIABLES
  buffer,       \* the tile bytes (stream.arrayBuffer)
  sceneAt,      \* [pos, len]: where the encoder wrote the scene JSON text
  sceneJson,    \* the value that text parses to
  options,      \* ImdlParserOptions (timeline, createUntransformedRootNode)
  pc,           \* position inside parseImdlDocument
  curPos,       \* stream.curPos
  readLog,      \* the reads done so far, by stage
  imdlHeader,   \* local imdlHeader
  ftStartPos,   \* local ftStartPos
  gltfHeader,   \* local gltfHeader
  sceneStr,     \* local sceneStr: the byte range decoded to text
  imdlDoc,      \* local imdlDoc
  featureTable, \* ImdlParser.parse: local featureTable
  result        \* the value returned by parseImdlDocument

decoderVars == <<buffer, sceneAt, sceneJson, options, pc, curPos, readLog, imdlHeader,
                 ftStartPos, gltfHeader, sceneStr, imdlDoc, featureTable, result>>

(***************************************************************************)
(* Program constants of the tile format (core-common).                     *)
(***************************************************************************)
TileFormat_IModel == 1818512745      \* 0x6c644d69 "iMdl"
TileFormat_Gltf == 1179937895        \* 0x46546c67 "glTF"
TileFormat_Unknown == 0
GltfVersions_Version1 == 1
GltfVersions_Version2 == 2
GltfVersions_Gltf1SceneFormat == 0
GltfV2ChunkTypes_JSON == 1313821514  \* 0x4E4F534A
GltfV2ChunkTypes_Binary == 5130562   \* 0x004E4942
CurrentImdlMajor == 4
ImdlFlags_MultiModelFeatureTable == 16
FeatureTableHeader_sizeInBytes == 12
ImdlHeaderSize == 12
AnimationNodeId_Untransformed == -1  \* the reserved id, outside every script's ids

(***************************************************************************)
(* Bounds of the model.                                                    *)
(***************************************************************************)
MaxPrims == 2          \* longest primitive list of the root mesh

(***************************************************************************)
(* Generic helpers.                                                        *)
(***************************************************************************)
EmptyMap == [x \in {} |-> x]
Has(m, k) == k \in DOMAIN m
Undef == [k |-> "undef"]
IsDef(x) == x.k # "undef"
Min2(a, b) == IF a < b THEN a ELSE b
Max2(a, b) == IF a > b THEN a ELSE b

RECURSIVE SeqConcat(_)
SeqConcat(ss) == IF ss = <<>> THEN <<>> ELSE Head(ss) \o SeqConcat(Tail(ss))

RECURSIVE Repeat(_, _)
Repeat(b, n) == IF n <= 0 THEN <<>> ELSE <<b>> \o Repeat(b, n - 1)

(***************************************************************************)
(* ByteStream: little-endian reads at a cursor over the buffer.  A read    *)
(* that runs past the end yields 0 and still advances the cursor, so that  *)
(* isPastTheEnd reports it.                                                *)
(***************************************************************************)
U32(n) == << n % 256, (n \div 256) % 256, (n \div 65536) % 256, (n \div 16777216) % 256 >>

readUint32(buf, pos) ==
  IF pos >= 0 /\ pos + 4 <= Len(buf)
  THEN buf[pos + 1] + 256 * buf[pos + 2] + 65536 * buf[pos + 3] + 16777216 * buf[pos + 4]
  ELSE 0

isPastTheEnd(buf, pos) == pos > Len(buf)

\* stream.nextBytes(n): the byte range [pos, pos+n) when the buffer holds it; a range
\* that runs past the end of the buffer is unreadable and yields no bytes
nextBytes(buf, pos, n) ==
  IF pos + n <= Len(buf) THEN [pos |-> pos, len |-> n] ELSE [pos |-> pos, len |-> 0]

(***************************************************************************)
(* TileHeader / ImdlHeader: format tag, version (major in the high 16     *)
(* bits), flags.                                                           *)
(***************************************************************************)
ImdlHeader(buf) ==
  LET format == readUint32(buf, 0)
      version == readUint32(buf, 4)
      flags == readUint32(buf, 8)
      past == isPastTheEnd(buf, ImdlHeaderSize)
  IN  [ format |-> IF past THEN TileFormat_Unknown ELSE format,
        versionMajor |-> version \div 65536,
        versionMinor |-> version % 65536,
        flags |-> flags,
        endPos |-> ImdlHeaderSize ]

ImdlHeader_isValid(h) == h.format = TileFormat_IModel
ImdlHeader_isReadableVersion(h) == h.versionMajor <= CurrentImdlMajor

(***************************************************************************)
(* FeatureTableHeader.readFrom: length, maxFeatures, count; undefined when *)
(* the reads ran past the end.                                             *)
(***************************************************************************)
FeatureTableHeader_readFrom(buf, pos) ==
  IF isPastTheEnd(buf, pos + FeatureTableHeader_sizeInBytes)
  THEN Undef
  ELSE [ k |-> "header",
         length |-> readUint32(buf, pos),
         maxFeatures |-> readUint32(buf, pos + 4),
         count |-> readUint32(buf, pos + 8) ]

(***************************************************************************)
(* GltfHeader constructor (ImdlParser.ts 50-86).                           *)
(***************************************************************************)
GltfHeader_noLegacy(version, value5) == version

GltfHeader_legacyVersion(version, value5) ==
  IF version = GltfVersions_Version2 /\ value5 = GltfVersions_Gltf1SceneFormat
  THEN GltfVersions_Version1
  ELSE version

\* the test of the version-2 chunks (76)
chunkMismatch_emptyBinaryAllowed(sceneChunkType, binaryChunkType, binaryLength) ==
  \/ GltfV2ChunkTypes_JSON # sceneChunkType
  \/ GltfV2ChunkTypes_Binary # binaryChunkType

chunkMismatch(sceneChunkType, binaryChunkType, binaryLength) ==
  \/ GltfV2ChunkTypes_JSON # sceneChunkType
  \/ GltfV2ChunkTypes_Binary # binaryChunkType
  \/ 0 = binaryLength

GltfHeader(buf, pos) ==
  LET format == readUint32(buf, pos)
      version0 == readUint32(buf, pos + 4)
      gltfLength == readUint32(buf, pos + 8)
      sceneStrLength == readUint32(buf, pos + 12)
      value5 == readUint32(buf, pos + 16)
      cur == pos + 20
      version == GltfHeader_legacyVersion(version0, value5)
      base == [ format |-> format, version |-> version, gltfLength |-> gltfLength,
                sceneStrLength |-> sceneStrLength, scenePosition |-> 0,
                binaryPosition |-> 0, curPos |-> cur, reads |-> {"gltfHeader"} ]
  IN  IF version = GltfVersions_Version1
      THEN IF GltfVersions_Gltf1SceneFormat # value5
           THEN [base EXCEPT !.format = TileFormat_Unknown]
           ELSE [base EXCEPT !.scenePosition = cur,
                             !.binaryPosition = cur + sceneStrLength]
      ELSE IF version = GltfVersions_Version2
      THEN LET afterScene == cur + sceneStrLength
               binaryLength == readUint32(buf, afterScene)
               binaryChunkType == readUint32(buf, afterScene + 4)
               read2 == [base EXCEPT !.scenePosition = cur,
                                     !.curPos = afterScene + 8,
                                     !.reads = {"gltfHeader", "gltfChunk2"}]
           IN  IF chunkMismatch(value5, binaryChunkType, binaryLength)
               THEN [read2 EXCEPT !.format = TileFormat_Unknown]
               ELSE [read2 EXCEPT !.binaryPosition = afterScene + 8]
      ELSE [base EXCEPT !.format = TileFormat_Unknown]

GltfHeader_isValid(h) == TileFormat_Gltf = h.format

(***************************************************************************)
(* JSON values.  A slot of a JSON object is absent, of the wrong type, or  *)
(* an object/array/number carrying a value.                                *)
(***************************************************************************)
Absent == [k |-> "absent"]
Wrong == [k |-> "wrong"]
Obj(v) == [k |-> "obj", v |-> v]

\* JsonUtils.asObject / asArray: the value when it has the wanted type
JsonUtils_asObject(slot) == IF slot.k = "obj" THEN slot ELSE Undef

Throw == [k |-> "throw"]
IsThrow(x) == x.k = "throw"

(***************************************************************************)
(* Node names are character sequences, so that the Node_<digits> pattern   *)
(* is matched on the text (nodeIdRegex, extractNodeId).                    *)
(***************************************************************************)
Digits == <<"0", "1", "2", "3", "4", "5", "6", "7", "8", "9">>
IsDigit(c) == \E i \in 1..10 : Digits[i] = c
DigitVal(c) == (CHOOSE i \in 1..10 : Digits[i] = c) - 1
NodePrefix == <<"N", "o", "d", "e", "_">>
Node_Root == NodePrefix \o <<"R", "o", "o", "t">>

\* String.match(/Node_(.*)/): the text after the first "Node_", or no match
nodeIdRegex(name) ==
  LET starts == { i \in 1..Len(name) :
                    /\ i + 4 <= Len(name)
                    /\ SubSeq(name, i, i + 4) = NodePrefix }
  IN  IF starts = {} THEN Undef
      ELSE LET i == CHOOSE j \in starts : \A m \in starts : j <= m
           IN  [k |-> "match", group |-> SubSeq(name, i + 5, Len(name))]

\* Number.parseInt(text, 10): optional sign, then the leading digits; NaN if none
RECURSIVE LeadingDigits(_, _)
LeadingDigits(text, acc) ==
  IF text = <<>> \/ ~IsDigit(Head(text)) THEN acc
  ELSE LeadingDigits(Tail(text), acc \o <<Head(text)>>)

RECURSIVE DigitsValue(_, _)
DigitsValue(ds, acc) ==
  IF ds = <<>> THEN acc ELSE DigitsValue(Tail(ds), 10 * acc + DigitVal(Head(ds)))

Number_parseInt(text) ==
  LET neg == text # <<>> /\ Head(text) = "-"
      body == IF text # <<>> /\ Head(text) \in {"-", "+"} THEN Tail(text) ELSE text
      ds == LeadingDigits(body, <<>>)
  IN  IF ds = <<>> THEN [k |-> "NaN"]
      ELSE [k |-> "num", v |-> IF neg THEN 0 - DigitsValue(ds, 0) ELSE DigitsValue(ds, 0)]

\* extractNodeId (ImdlParser.ts 100-109); assert() throws in builds that enable it
extractNodeId(nodeName, asserts) ==
  LET match == nodeIdRegex(nodeName)
  IN  IF ~IsDef(match)
      THEN IF asserts THEN Throw ELSE [k |-> "num", v |-> 0]
      ELSE LET nodeId == Number_parseInt(match.group)
           IN  IF nodeId.k = "NaN"
               THEN IF asserts THEN Throw ELSE [k |-> "num", v |-> 0]
               ELSE nodeId

(***************************************************************************)
(* ImdlParser.findBuffer (847-861).                                        *)
(***************************************************************************)
\* the same without the zero-length test
findBuffer_keepsEmpty(doc, bufferViewId) ==
  IF bufferViewId = "" THEN Undef
  ELSE IF ~Has(doc.bufferViews, bufferViewId) THEN Undef
  ELSE [k |-> "bytes", byteOffset |-> doc.bufferViews[bufferViewId].byteOffset,
        byteLength |-> doc.bufferViews[bufferViewId].byteLength]

findBuffer(doc, bufferViewId) ==
  IF bufferViewId = "" THEN Undef
  ELSE IF ~Has(doc.bufferViews, bufferViewId) THEN Undef
  ELSE LET bufferViewJson == doc.bufferViews[bufferViewId]
       IN  IF 0 = bufferViewJson.byteLength THEN Undef
           ELSE [k |-> "bytes", byteOffset |-> bufferViewJson.byteOffset,
                 byteLength |-> bufferViewJson.byteLength]

(***************************************************************************)
(* ImdlParser.parseVertexTable (760-801): json.params is dereferenced      *)
(* unguarded, so a vertex table without params raises a TypeError.         *)
(***************************************************************************)
parseVertexTable(doc, primitive) ==
  LET json == primitive.vertices
  IN  IF json.k # "obj" THEN Undef
      ELSE IF ~IsDef(findBuffer(doc, json.bufferView)) THEN Undef
      ELSE IF json.params = "absent" THEN Throw
      ELSE IF json.params \in {"noMin", "noMax"} THEN Undef
      ELSE [k |-> "table", data |-> findBuffer(doc, json.bufferView)]

\* parseSurface (690-737)
parseSurface(doc, mesh) ==
  LET surf == mesh.surface
  IN  IF surf.k # "obj" THEN Undef
      ELSE IF ~IsDef(findBuffer(doc, surf.indices)) THEN Undef
      ELSE IF ~surf.validType THEN Undef
      ELSE [k |-> "surface", indices |-> findBuffer(doc, surf.indices)]

\* parseTesselatedPolyline (545-551)
parseTesselatedPolyline(doc, json) ==
  LET indices == findBuffer(doc, json.indices)
      prevIndices == findBuffer(doc, json.prevIndices)
      nextIndicesAndParams == findBuffer(doc, json.nextIndicesAndParams)
  IN  IF IsDef(indices) /\ IsDef(prevIndices) /\ IsDef(nextIndicesAndParams)
      THEN [k |-> "polyline", indices |-> indices]
      ELSE Undef

(***************************************************************************)
(* ImdlParser.parsePrimitive (605-688).  The result names the primitive    *)
(* kind and the scene primitive it was built from.                         *)
(***************************************************************************)
parsePrimitive(doc, docPrimitive) ==
  IF docPrimitive.type = "areaPattern" THEN Undef
  ELSE
    LET materialName == docPrimitive.material
        dpMaterial == IF materialName # "" /\ Has(doc.materials, materialName)
                      THEN JsonUtils_asObject(doc.materials[materialName])
                      ELSE Undef
    IN  IF ~IsDef(dpMaterial) THEN Undef
        ELSE
          LET vertices == parseVertexTable(doc, docPrimitive)
          IN  IF IsThrow(vertices) THEN Throw
              ELSE IF ~IsDef(vertices) THEN Undef
              ELSE IF docPrimitive.type = "mesh"
                   THEN IF IsDef(parseSurface(doc, docPrimitive))
                        THEN [k |-> "prim", type |-> "mesh", from |-> docPrimitive]
                        ELSE Undef
              ELSE IF docPrimitive.type = "polyline"
                   THEN IF IsDef(parseTesselatedPolyline(doc, docPrimitive))
                        THEN [k |-> "prim", type |-> "polyline", from |-> docPrimitive]
                        ELSE Undef
              ELSE IF docPrimitive.type = "point"
                   THEN IF IsDef(findBuffer(doc, docPrimitive.indices))
                        THEN [k |-> "prim", type |-> "point", from |-> docPrimitive]
                        ELSE Undef
              ELSE Undef

(***************************************************************************)
(* ImdlParser.parsePrimitives (534-543): the defined results, in order; an *)
(* exception of any element propagates.                                    *)
(***************************************************************************)
RECURSIVE parsePrimitivesFrom(_, _, _)
parsePrimitivesFrom(doc, docPrimitives, primitives) ==
  IF docPrimitives = <<>> THEN [k |-> "list", v |-> primitives]
  ELSE LET primitive == parsePrimitive(doc, Head(docPrimitives))
       IN  IF IsThrow(primitive) THEN Throw
           ELSE parsePrimitivesFrom(doc, Tail(docPrimitives),
                  IF IsDef(primitive) THEN Append(primitives, primitive) ELSE primitives)

\* a variant that stops at the first primitive it cannot build
RECURSIVE parsePrimitivesStopAtBad(_, _, _)
parsePrimitivesStopAtBad(doc, docPrimitives, primitives) ==
  IF docPrimitives = <<>> THEN [k |-> "list", v |-> primitives]
  ELSE LET primitive == parsePrimitive(doc, Head(docPrimitives))
       IN  IF IsThrow(primitive) THEN Throw
           ELSE IF ~IsDef(primitive) THEN [k |-> "list", v |-> primitives]
           ELSE parsePrimitivesStopAtBad(doc, Tail(docPrimitives), Append(primitives, primitive))

parsePrimitives_firstBadEnds(doc, docPrimitives) == parsePrimitivesStopAtBad(doc, docPrimitives, <<>>)

parsePrimitives(doc, docPrimitives) == parsePrimitivesFrom(doc, docPrimitives, <<>>)


(***************************************************************************)
(* ImdlParser.parseFeatureTable (288-345).  binaryPos is the byte offset   *)
(* of _binaryData in the buffer.                                           *)
(***************************************************************************)
FeatureTable_anyLength(header) == TRUE

FeatureTable_lengthOk(header) == 0 = header.length % 4

animNodesArray(doc, buf, binaryPos) ==
  IF ~IsDef(doc.animationNodes) THEN Undef
  ELSE LET animationNodes == doc.animationNodes.v
           bytesPerId == animationNodes.bytesPerId
           bufferViewId == animationNodes.bufferView
       IN  IF ~Has(doc.bufferViews, bufferViewId) THEN Undef
           ELSE LET bufferViewJson == doc.bufferViews[bufferViewId]
                    binLen == Len(buf) - binaryPos
                    lo == Min2(bufferViewJson.byteOffset, binLen)
                    hi == Min2(Max2(bufferViewJson.byteOffset + bufferViewJson.byteLength, lo), binLen)
                    byteLength == hi - lo
                    byteOffset == binaryPos + lo
                IN  IF bytesPerId = 1
                    THEN [k |-> "ids", bytesPerId |-> 1, length |-> byteLength]
                    ELSE IF bytesPerId \in {2, 4}
                    THEN IF byteOffset % bytesPerId # 0
                         THEN Throw  \* RangeError: start offset must be a multiple of the element size
                         ELSE [k |-> "ids", bytesPerId |-> bytesPerId,
                               length |-> byteLength \div bytesPerId]
                    ELSE Undef

parseFeatureTable(buf, doc, startPos, multiModel, binaryPos) ==
  LET header == FeatureTableHeader_readFrom(buf, startPos)
  IN  IF ~IsDef(header) THEN Undef
      ELSE IF ~FeatureTable_lengthOk(header) THEN Undef
      ELSE
        LET numUint32s == (header.length - FeatureTableHeader_sizeInBytes) \div 4
            dataPos == startPos + FeatureTableHeader_sizeInBytes
            packedFeatureArray == [i \in 1..numUint32s |-> readUint32(buf, dataPos + 4 * (i - 1))]
        IN  IF isPastTheEnd(buf, dataPos + 4 * numUint32s) THEN Undef
            ELSE IF multiModel
            THEN [k |-> "table", multiModel |-> TRUE, data |-> packedFeatureArray,
                  numFeatures |-> header.count, animationNodeIds |-> Undef]
            ELSE LET ids == animNodesArray(doc, buf, binaryPos)
                 IN  IF IsThrow(ids) THEN Throw
                     ELSE [k |-> "table", multiModel |-> FALSE, data |-> packedFeatureArray,
                           numFeatures |-> header.count, animationNodeIds |-> ids]

(***************************************************************************)
(* Output nodes.                                                           *)
(***************************************************************************)
NoId == [k |-> "absent"]
Id(n) == [k |-> "id", v |-> n]
Node(animationNodeId, layerId, primitives) ==
  [animationNodeId |-> animationNodeId, layerId |-> layerId, primitives |-> primitives]

RECURSIVE SortedSeq(_)
SortedSeq(S) ==
  IF S = {} THEN <<>>
  ELSE LET m == CHOOSE x \in S : \A y \in S : x <= y
       IN  <<m>> \o SortedSeq(S \ {m})

(***************************************************************************)
(* ImdlParser.parseAnimationBranches (397-532).                            *)
(*  - populateAnimationNodeIds gives every feature of the table the batch  *)
(*    id the timeline assigns to it;                                       *)
(*  - computeNodeId keeps the ids of discrete batches, 0 otherwise;        *)
(*  - split*Params yields one part per node id used by the primitive's     *)
(*    features, here in ascending id order.                                *)
(***************************************************************************)
populateAnimationNodeIds(ft, timeline) ==
  [ft EXCEPT !.animationNodeIds =
     [k |-> "ids", bytesPerId |-> 4, length |-> ft.numFeatures]]

getAnimationNodeId(ft, timeline, featureIndex) ==
  IF featureIndex < ft.numFeatures /\ featureIndex \in DOMAIN timeline.batchOf
  THEN timeline.batchOf[featureIndex]
  ELSE 0

computeNodeId(ft, timeline, featureIndex) ==
  LET nodeId == getAnimationNodeId(ft, timeline, featureIndex)
  IN  IF 0 # nodeId /\ nodeId \in timeline.discreteBatchIds THEN nodeId ELSE 0

splitParams(ft, timeline, primitive) ==
  SortedSeq({ computeNodeId(ft, timeline, f) : f \in primitive.from.features })

\* getNode(nodeId).primitives.push(part): the node of this id is created on first use
RECURSIVE pushParts(_, _, _)
pushParts(acc, nodeIds, primitive) ==
  IF nodeIds = <<>> THEN acc
  ELSE LET nodeId == Head(nodeIds)
           part == [k |-> "prim", type |-> primitive.type, from |-> primitive.from,
                    nodeId |-> nodeId]
           acc1 == IF Has(acc.nodesById, nodeId) THEN acc
                   ELSE [output |-> Append(acc.output, Node(Id(nodeId), NoId, <<>>)),
                         nodesById |-> [n \in DOMAIN acc.nodesById \cup {nodeId} |->
                                          IF n = nodeId THEN Len(acc.output) + 1
                                          ELSE acc.nodesById[n]]]
           at == acc1.nodesById[nodeId]
           acc2 == [acc1 EXCEPT !.output[at].primitives = Append(@, part)]
       IN  pushParts(acc2, Tail(nodeIds), primitive)

\* the switch on primitive.type: the "mesh" case computes the split and stores none of it
splitAndPush(acc, ft, timeline, primitive) ==
  IF primitive.type = "mesh" THEN acc
  ELSE pushParts(acc, splitParams(ft, timeline, primitive), primitive)

RECURSIVE animationBranchesFrom(_, _, _, _, _)
animationBranchesFrom(doc, docPrimitives, ft, timeline, acc) ==
  IF docPrimitives = <<>> THEN [k |-> "ok", output |-> acc.output]
  ELSE LET primitive == parsePrimitive(doc, Head(docPrimitives))
       IN  IF IsThrow(primitive) THEN Throw
           ELSE animationBranchesFrom(doc, Tail(docPrimitives), ft, timeline,
                  IF IsDef(primitive) THEN splitAndPush(acc, ft, timeline, primitive) ELSE acc)

parseAnimationBranches(doc, output, docPrimitives, ft, opts) ==
  IF opts.asserts /\ IsDef(ft.animationNodeIds) THEN Throw
  ELSE LET ft1 == populateAnimationNodeIds(ft, opts.timeline)
           r == animationBranchesFrom(doc, docPrimitives, ft1, opts.timeline,
                                      [output |-> output, nodesById |-> EmptyMap])
       IN  IF IsThrow(r) THEN Throw
           ELSE [k |-> "ok", output |-> r.output, ft |-> ft1]

(***************************************************************************)
(* ImdlParser.parseNodes (347-395).  doc.nodes is the ordered list of      *)
(* (key, mesh name) entries of the scene's nodes object.                   *)
(***************************************************************************)
hasNodeRoot_ignored(docNodes) == TRUE

hasNodeRoot(docNodes) == \E i \in 1..Len(docNodes) : docNodes[i].key = Node_Root

\* 370-379: the id of the single node of the root
rootNodeId_never(opts) == NoId

rootNodeId(opts) ==
  IF opts.createUntransformedRootNode THEN Id(AnimationNodeId_Untransformed) ELSE NoId

\* the node pushed for one key, or nothing: [k: "ok", nodes, ft] or Throw
parseNode(doc, opts, nodes, ft, entry) ==
  IF ~Has(doc.meshes.v, entry.mesh) THEN [k |-> "ok", nodes |-> nodes, ft |-> ft]
  ELSE
    LET docMesh == doc.meshes.v[entry.mesh]
        docPrimitives == docMesh.primitives
        layerId == docMesh.layer
    IN  IF docPrimitives.k = "absent" THEN [k |-> "ok", nodes |-> nodes, ft |-> ft]
        ELSE IF docPrimitives.k = "wrong" THEN Throw   \* not iterable
        ELSE IF entry.key = Node_Root
        THEN IF opts.timeline.k # "none"
             THEN LET r == parseAnimationBranches(doc, nodes, docPrimitives.v, ft, opts)
                  IN  IF IsThrow(r) THEN Throw
                      ELSE [k |-> "ok", nodes |-> r.output, ft |-> r.ft]
             ELSE LET ps == parsePrimitives(doc, docPrimitives.v)
                      id == rootNodeId(opts)
                  IN  IF IsThrow(ps) THEN Throw
                      ELSE [k |-> "ok", nodes |-> Append(nodes, Node(id, NoId, ps.v)), ft |-> ft]
        ELSE IF layerId.k = "absent"
        THEN LET nodeId == extractNodeId(entry.key, opts.asserts)
                 ps == parsePrimitives(doc, docPrimitives.v)
             IN  IF IsThrow(nodeId) \/ IsThrow(ps) THEN Throw
                 ELSE [k |-> "ok", nodes |-> Append(nodes, Node(Id(nodeId.v), NoId, ps.v)),
                       ft |-> ft]
        ELSE LET ps == parsePrimitives(doc, docPrimitives.v)
             IN  IF IsThrow(ps) THEN Throw
                 ELSE [k |-> "ok", nodes |-> Append(nodes, Node(NoId, layerId, ps.v)), ft |-> ft]

RECURSIVE parseNodesFrom(_, _, _, _, _)
parseNodesFrom(doc, opts, entries, nodes, ft) ==
  IF entries = <<>> THEN [k |-> "ok", nodes |-> nodes, ft |-> ft]
  ELSE LET r == parseNode(doc, opts, nodes, ft, Head(entries))
       IN  IF IsThrow(r) THEN Throw
           ELSE parseNodesFrom(doc, opts, Tail(entries), r.nodes, r.ft)

parseNodes(doc, opts, ft) ==
  IF ~hasNodeRoot(doc.nodes) THEN [k |-> "ok", nodes |-> <<>>, ft |-> ft]
  ELSE parseNodesFrom(doc, opts, doc.nodes, <<>>, ft)


(***************************************************************************)
(* parseImdlDocument (988-1045), one step per stage.  inp is the call's    *)
(* input (buffer, scene text, options); st is the state of the call.       *)
(***************************************************************************)
Status(code) == [status |-> code]
Pending == Status("Pending")

Finish(st, code) == [st EXCEPT !.pc = "done", !.result = Status(code)]

headerStatus_noVersionCheck(h) ==
  IF ~ImdlHeader_isValid(h) THEN "InvalidHeader" ELSE "ok"

\* 991-994
headerStatus(h) ==
  IF ~ImdlHeader_isValid(h) THEN "InvalidHeader"
  ELSE IF ~ImdlHeader_isReadableVersion(h) THEN "NewerMajorVersion"
  ELSE "ok"

stepImdlHeader(inp, st) ==
  LET h == ImdlHeader(inp.buffer)
      st1 == [st EXCEPT !.imdlHeader = h, !.curPos = h.endPos,
                        !.readLog = @ \cup {"tileHeader"}]
  IN  IF headerStatus(h) # "ok" THEN Finish(st1, headerStatus(h))
      ELSE [st1 EXCEPT !.pc = "ftHeader"]

\* 996-1002
stepFeatureTableHeader(inp, st) ==
  LET ftHeader == FeatureTableHeader_readFrom(inp.buffer, st.curPos)
      st1 == [st EXCEPT !.ftStartPos = st.curPos, !.readLog = @ \cup {"ftHeader"}]
  IN  IF ~IsDef(ftHeader)
      THEN Finish([st1 EXCEPT !.curPos = st.curPos + FeatureTableHeader_sizeInBytes],
                  "InvalidFeatureTable")
      ELSE [st1 EXCEPT !.curPos = st.curPos + ftHeader.length, !.pc = "gltfHeader"]

\* 1004-1009
stepGltfHeader(inp, st) ==
  LET h == GltfHeader(inp.buffer, st.curPos)
      st1 == [st EXCEPT !.gltfHeader = h, !.readLog = @ \cup h.reads]
  IN  IF ~GltfHeader_isValid(h)
      THEN Finish([st1 EXCEPT !.curPos = h.curPos], "InvalidTileData")
      ELSE [st1 EXCEPT !.curPos = h.scenePosition, !.pc = "scene"]

\* 1010-1013: utf8ToString of no bytes is the empty string
stepScene(inp, st) ==
  LET sceneStrData == nextBytes(inp.buffer, st.curPos, st.gltfHeader.sceneStrLength)
      st1 == [st EXCEPT !.sceneStr = sceneStrData,
                        !.curPos = st.curPos + st.gltfHeader.sceneStrLength,
                        !.readLog = @ \cup {"scene"}]
  IN  IF sceneStrData.len = 0 THEN Finish(st1, "InvalidScene")
      ELSE [st1 EXCEPT !.pc = "parse"]

\* JSON.parse: the text is the scene's JSON only when it is exactly the bytes the
\* encoder wrote; any other byte range of the tile is no JSON text
JSON_parse(inp, text) ==
  IF text = inp.sceneAt /\ inp.sceneJson.k # "malformed" THEN inp.sceneJson ELSE Throw

slot(sceneValue, f) == IF sceneValue.k = "obj" THEN sceneValue[f] ELSE Absent

orEmpty(x, empty) == IF IsDef(x) THEN x.v ELSE empty

\* 1017-1029
buildDocument(sceneValue) ==
  [ animationNodes |-> JsonUtils_asObject(slot(sceneValue, "animationNodes")),
    bufferViews |-> orEmpty(JsonUtils_asObject(slot(sceneValue, "bufferViews")), EmptyMap),
    meshes |-> JsonUtils_asObject(slot(sceneValue, "meshes")),
    nodes |-> orEmpty(JsonUtils_asObject(slot(sceneValue, "nodes")), <<>>),
    materials |-> orEmpty(JsonUtils_asObject(slot(sceneValue, "materials")), EmptyMap),
    renderMaterials |-> orEmpty(JsonUtils_asObject(slot(sceneValue, "renderMaterials")), EmptyMap),
    namedTextures |-> orEmpty(JsonUtils_asObject(slot(sceneValue, "namedTextures")), EmptyMap),
    patternSymbols |-> orEmpty(JsonUtils_asObject(slot(sceneValue, "patternSymbols")), EmptyMap),
    rtcCenter |-> JsonUtils_asObject(slot(sceneValue, "rtcCenter")) ]

meshesMissing_unchecked(doc) == FALSE

\* 1031
meshesMissing(doc) == ~IsDef(doc.meshes)

caught_rethrown(st) == Finish(st, "Threw")

\* the catch clause (1042-1044)
caught(st) == Finish(st, "InvalidTileData")

\* 1015-1034: JSON.parse, the document, the meshes test, the binary view
stepParse(inp, st) ==
  LET sceneValue == JSON_parse(inp, st.sceneStr)
  IN  IF IsThrow(sceneValue) THEN caught(st)
      ELSE IF sceneValue.k = "null" THEN caught(st)    \* TypeError: property of null
      ELSE LET doc == buildDocument(sceneValue)
           IN  IF meshesMissing(doc) THEN Finish(st, "InvalidTileData")
               ELSE IF st.gltfHeader.binaryPosition > Len(inp.buffer)
               THEN caught(st)                          \* RangeError: view outside the buffer
               ELSE [st EXCEPT !.imdlDoc = doc, !.pc = "featureTable"]

multiModel(h) == (h.flags \div ImdlFlags_MultiModelFeatureTable) % 2 = 1

featureTableMissing_unchecked(ft) == FALSE

\* ImdlParser.parse (267-270)
featureTableMissing(ft) == ~IsDef(ft)

stepFeatureTable(inp, st) ==
  LET ft == parseFeatureTable(inp.buffer, st.imdlDoc, st.ftStartPos,
                              multiModel(st.imdlHeader), st.gltfHeader.binaryPosition)
      st1 == [st EXCEPT !.readLog = @ \cup {"ftBody"}]
  IN  IF IsThrow(ft) THEN caught(st1)
      ELSE IF featureTableMissing(ft) THEN Finish(st1, "InvalidFeatureTable")
      ELSE [st1 EXCEPT !.featureTable = ft, !.pc = "nodes",
                       !.curPos = st.ftStartPos +
                         FeatureTableHeader_readFrom(inp.buffer, st.ftStartPos).length]

rtcCenterOf(doc) ==
  IF ~IsDef(doc.rtcCenter) THEN Undef
  ELSE LET a == doc.rtcCenter.v
       IN  [k |-> "point",
            x |-> IF Len(a) >= 1 THEN a[1] ELSE 0,
            y |-> IF Len(a) >= 2 THEN a[2] ELSE 0,
            z |-> IF Len(a) >= 3 THEN a[3] ELSE 0]

\* ImdlParser.parse (272-286)
stepNodes(inp, st) ==
  LET r == parseNodes(st.imdlDoc, inp.options, st.featureTable)
  IN  IF IsThrow(r) THEN caught(st)
      ELSE [st EXCEPT !.pc = "done",
                      !.featureTable = r.ft,
                      !.result = [ status |-> "Success",
                                   featureTable |-> r.ft,
                                   nodes |-> r.nodes,
                                   rtcCenter |-> rtcCenterOf(st.imdlDoc),
                                   binaryData |-> [byteOffset |-> st.gltfHeader.binaryPosition],
                                   json |-> st.imdlDoc ]]

Step(inp, st) ==
  CASE st.pc = "start" -> stepImdlHeader(inp, st)
    [] st.pc = "ftHeader" -> stepFeatureTableHeader(inp, st)
    [] st.pc = "gltfHeader" -> stepGltfHeader(inp, st)
    [] st.pc = "scene" -> stepScene(inp, st)
    [] st.pc = "parse" -> stepParse(inp, st)
    [] st.pc = "featureTable" -> stepFeatureTable(inp, st)
    [] st.pc = "nodes" -> stepNodes(inp, st)
    [] OTHER -> st

InitialCall ==
  [ pc |-> "start", curPos |-> 0, readLog |-> {}, imdlHeader |-> Undef, ftStartPos |-> 0,
    gltfHeader |-> Undef, sceneStr |-> Undef, imdlDoc |-> Undef, featureTable |-> Undef,
    result |-> Pending ]

\* the whole call, as the function of its input
RECURSIVE runFrom(_, _)
runFrom(inp, st) == IF st.pc = "done" THEN st ELSE runFrom(inp, Step(inp, st))

parseImdlDocument(inp) == runFrom(inp, InitialCall)


(***************************************************************************)
(* The tiles of the model: an encoder lays a tile out from its fields, and *)
(* the families below vary the headers, the scene and the options.         *)
(***************************************************************************)
Layout(format, major, flags, ftLength, gformat, gversion, value5, lens, layoutV2,
       binaryLength, binTag, cut) ==
  [ format |-> format, major |-> major, flags |-> flags, ftLength |-> ftLength,
    gformat |-> gformat, gversion |-> gversion, value5 |-> value5,
    declLen |-> lens[1], sceneLen |-> lens[2], layoutV2 |-> layoutV2,
    binaryLength |-> binaryLength, binTag |-> binTag, cut |-> cut ]

NumFeatures == 2

Encode(L) ==
  LET sceneBytes == IF L.sceneLen > 0 THEN <<123>> \o Repeat(32, L.sceneLen - 1) ELSE <<>>
      full == SeqConcat(<<
                U32(L.format), U32(L.major * 65536 + 1), U32(L.flags),
                U32(L.ftLength), U32(NumFeatures), U32(NumFeatures),
                Repeat(3, L.ftLength - FeatureTableHeader_sizeInBytes),
                U32(L.gformat), U32(L.gversion), U32(64), U32(L.declLen), U32(L.value5),
                sceneBytes,
                IF L.layoutV2 THEN U32(L.binaryLength) \o U32(L.binTag) ELSE <<>>,
                <<1, 2, 3, 4, 5, 6, 7, 8>> >>)
  IN  IF L.cut = 0 \/ L.cut >= Len(full) THEN full ELSE SubSeq(full, 1, L.cut)

SceneStart(L) == ImdlHeaderSize + L.ftLength + 20

Tile(L, scene, opts) ==
  [ buffer |-> Encode(L),
    sceneAt |-> [pos |-> SceneStart(L), len |-> L.sceneLen],
    sceneJson |-> scene,
    options |-> opts ]

\* well-formed layouts: version 2, version 1, and version 1 mislabelled as version 2
LayoutV2(ftLength, flags) ==
  Layout(TileFormat_IModel, CurrentImdlMajor, flags, ftLength, TileFormat_Gltf,
         GltfVersions_Version2, GltfV2ChunkTypes_JSON, <<4, 4>>, TRUE, 8,
         GltfV2ChunkTypes_Binary, 0)
LayoutV1(ftLength, flags) ==
  Layout(TileFormat_IModel, CurrentImdlMajor, flags, ftLength, TileFormat_Gltf,
         GltfVersions_Version1, GltfVersions_Gltf1SceneFormat, <<4, 4>>, FALSE, 0, 0, 0)
LayoutLegacy(ftLength, flags) ==
  Layout(TileFormat_IModel, CurrentImdlMajor, flags, ftLength, TileFormat_Gltf,
         GltfVersions_Version2, GltfVersions_Gltf1SceneFormat, <<4, 4>>, FALSE, 0, 0, 0)

\* options
NoTimeline == [k |-> "none", batchOf |-> EmptyMap, discreteBatchIds |-> {}]
Timeline1 == [k |-> "script", batchOf |-> [f \in 0..1 |-> f + 1], discreteBatchIds |-> {1}]
Timeline2 == [k |-> "script", batchOf |-> [f \in 0..1 |-> f + 1], discreteBatchIds |-> {1, 2}]
Options(timeline, untransformed, asserts) ==
  [timeline |-> timeline, createUntransformedRootNode |-> untransformed, asserts |-> asserts]
RootOptions ==
  { Options(NoTimeline, FALSE, FALSE), Options(NoTimeline, TRUE, FALSE),
    Options(Timeline1, FALSE, FALSE), Options(Timeline2, TRUE, FALSE) }

\* scene content
BufferViews ==
  [n \in {"bv1", "bvZero", "bvAnim"} |->
     IF n = "bv1" THEN [byteOffset |-> 0, byteLength |-> 4]
     ELSE IF n = "bvZero" THEN [byteOffset |-> 0, byteLength |-> 0]
     ELSE [byteOffset |-> 4, byteLength |-> 2]]
Materials == [n \in {"m1", "mBad"} |-> IF n = "m1" THEN Obj("display") ELSE Wrong]

Prim(type, material, vertices, indices, prevIndices, surface, features) ==
  [ type |-> type, material |-> material, vertices |-> vertices, indices |-> indices,
    prevIndices |-> prevIndices, nextIndicesAndParams |-> prevIndices,
    surface |-> surface, features |-> features ]
Vertices(bufferView, params) == [k |-> "obj", bufferView |-> bufferView, params |-> params]
NoVertices == [k |-> "absent", bufferView |-> "", params |-> "absent"]
Surface(indices, validType) == [k |-> "obj", indices |-> indices, validType |-> validType]
NoSurface == [k |-> "absent", indices |-> "", validType |-> FALSE]
GoodV == Vertices("bv1", "ok")

GoodPoint(fs) == Prim("point", "m1", GoodV, "bv1", "", NoSurface, fs)
GoodPolyline(fs) == Prim("polyline", "m1", GoodV, "bv1", "bv1", NoSurface, fs)
GoodMesh(fs) == Prim("mesh", "m1", GoodV, "", "", Surface("bv1", TRUE), fs)

GoodPrims == { GoodPoint({0}), GoodPoint({0, 1}), GoodPolyline({1}), GoodMesh({0, 1}) }
DroppedPrims ==
  { Prim("point", "", GoodV, "bv1", "", NoSurface, {0}),              \* empty material name
    Prim("point", "mX", GoodV, "bv1", "", NoSurface, {0}),            \* unresolvable material
    Prim("point", "mBad", GoodV, "bv1", "", NoSurface, {0}),          \* material not an object
    Prim("point", "m1", NoVertices, "bv1", "", NoSurface, {0}),       \* no vertex table
    Prim("polyline", "m1", Vertices("bvNone", "ok"), "bv1", "bv1", NoSurface, {0}),
    Prim("point", "m1", Vertices("bv1", "noMin"), "bv1", "", NoSurface, {0}),
    Prim("point", "m1", GoodV, "", "", NoSurface, {0}),               \* no index buffer
    Prim("point", "m1", GoodV, "bvZero", "", NoSurface, {0}),         \* zero-length index buffer
    Prim("polyline", "m1", GoodV, "bv1", "bvZero", NoSurface, {1}),
    Prim("mesh", "m1", GoodV, "", "", NoSurface, {0}),                \* no surface
    Prim("mesh", "m1", GoodV, "", "", Surface("bvNone", TRUE), {0}),
    Prim("areaPattern", "m1", GoodV, "bv1", "", NoSurface, {0}) }
ThrowingPrim == Prim("point", "m1", Vertices("bv1", "absent"), "bv1", "", NoSurface, {0})
PrimVariants == GoodPrims \cup DroppedPrims \cup {ThrowingPrim}

\* the primitives that longer lists are made of
CorePrims ==
  GoodPrims
  \cup { Prim("point", "", GoodV, "bv1", "", NoSurface, {0}),
         Prim("polyline", "m1", Vertices("bvNone", "ok"), "bv1", "bv1", NoSurface, {0}),
         Prim("mesh", "m1", GoodV, "", "", NoSurface, {0}),
         ThrowingPrim }

\* every variant alone, and the lists of up to MaxPrims core primitives
PrimLists ==
  UNION { [1..n -> PrimVariants] : n \in 0..1 }
  \cup UNION { [1..n -> CorePrims] : n \in 2..MaxPrims }

Mesh(primitives, layer) == [primitives |-> primitives, layer |-> layer]
Meshes(rootPrims) ==
  [n \in {"meshRoot", "mesh1", "meshL", "meshNoPrims", "meshBadPrims"} |->
     IF n = "meshRoot" THEN Mesh(Obj(rootPrims), Absent)
     ELSE IF n = "mesh1"
     THEN Mesh(Obj(<<GoodPoint({0}), Prim("point", "", GoodV, "bv1", "", NoSurface, {0}),
                     GoodPolyline({1})>>), Absent)
     ELSE IF n = "meshL" THEN Mesh(Obj(<<GoodMesh({0, 1})>>), Obj("L1"))
     ELSE IF n = "meshNoPrims" THEN Mesh(Absent, Absent)
     ELSE Mesh(Wrong, Absent)]

Entry(key, mesh) == [key |-> key, mesh |-> mesh]
Node_1 == NodePrefix \o <<"1">>
Node_12 == NodePrefix \o <<"1", "2">>
Node_3a == NodePrefix \o <<"3", "a">>
Node_x == NodePrefix \o <<"x">>
OtherKey == <<"A">>
RootOnly == <<Entry(Node_Root, "meshRoot")>>
NodeLists ==
  { RootOnly,
    <<Entry(Node_1, "mesh1"), Entry(Node_Root, "meshRoot"), Entry(Node_12, "meshL")>>,
    <<Entry(Node_1, "mesh1"), Entry(Node_12, "meshL")>>,
    <<Entry(Node_Root, "meshRoot"), Entry(Node_1, "meshGone"), Entry(Node_12, "meshNoPrims")>>,
    <<Entry(Node_Root, "meshRoot"), Entry(Node_1, "meshBadPrims")>>,
    <<Entry(Node_3a, "mesh1"), Entry(Node_Root, "meshRoot")>>,
    <<Entry(Node_x, "mesh1"), Entry(Node_Root, "meshNoPrims"), Entry(OtherKey, "mesh1")>>,
    <<Entry(Node_12, "mesh1")>>,
    <<Entry(Node_1, "mesh1"), Entry(Node_Root, "meshL"), Entry(Node_12, "meshRoot")>>,
    <<>> }

Scene(meshes, nodes, bufferViews, materials, others, animationNodes, rtcCenter) ==
  [ k |-> "obj", meshes |-> meshes, nodes |-> nodes, bufferViews |-> bufferViews,
    materials |-> materials, renderMaterials |-> others, namedTextures |-> others,
    patternSymbols |-> others, animationNodes |-> animationNodes, rtcCenter |-> rtcCenter ]

DefaultRoot == <<GoodPoint({0, 1}), GoodMesh({0, 1})>>
SimpleScene ==
  Scene(Obj(Meshes(DefaultRoot)), Obj(RootOnly), Obj(BufferViews), Obj(Materials),
        Obj(EmptyMap), Absent, Absent)

Kinds(v) == {Absent, Wrong, Obj(v)}
AnimationNodes(bytesPerId, bufferView) == Obj([bytesPerId |-> bytesPerId, bufferView |-> bufferView])

\* family 1: the tile header
HeaderTiles ==
  { Tile(Layout(format, major, flags, 16, TileFormat_Gltf, GltfVersions_Version2,
                GltfV2ChunkTypes_JSON, <<4, 4>>, TRUE, 8, GltfV2ChunkTypes_Binary, cut),
         SimpleScene, Options(NoTimeline, FALSE, FALSE)) :
      format \in {TileFormat_IModel, TileFormat_Gltf},
      major \in {CurrentImdlMajor - 1, CurrentImdlMajor, CurrentImdlMajor + 1},
      flags \in {0, ImdlFlags_MultiModelFeatureTable},
      cut \in {0, 6, 12, 20, 26} }

\* family 2: the feature-table length and the glTF chunk header
GltfTiles ==
  { Tile(Layout(TileFormat_IModel, CurrentImdlMajor, 0, ftLength, gformat, gversion, value5,
                lens, layoutV2, bin[1], bin[2], cut),
         SimpleScene, Options(NoTimeline, FALSE, FALSE)) :
      ftLength \in {12, 14, 16},
      gformat \in {TileFormat_Gltf, TileFormat_IModel},
      gversion \in {GltfVersions_Version1, GltfVersions_Version2, 3},
      value5 \in {GltfVersions_Gltf1SceneFormat, GltfV2ChunkTypes_JSON, GltfV2ChunkTypes_Binary},
      lens \in {<<4, 4>>, <<0, 0>>, <<40, 4>>},
      layoutV2 \in BOOLEAN,
      bin \in {<<8, GltfV2ChunkTypes_Binary>>, <<0, GltfV2ChunkTypes_Binary>>,
               <<8, GltfV2ChunkTypes_JSON>>},
      cut \in {0, 34, 50} }

WellFormedLayouts ==
  { LayoutV2(ftLength, 0) : ftLength \in {14, 16} }
  \cup { LayoutV1(ftLength, 0) : ftLength \in {14, 16} }
  \cup { LayoutLegacy(ftLength, 0) : ftLength \in {14, 16} }

\* family 3: the kinds of the scene's top-level values
SceneKindTiles ==
  { Tile(L, scene, opts) :
      L \in WellFormedLayouts,
      scene \in { [k |-> "malformed"], [k |-> "null"], [k |-> "scalar"] }
                \cup { Scene(meshes, nodes, bufferViews, materials, others, Absent, rtc) :
                         meshes \in Kinds(Meshes(DefaultRoot)),
                         nodes \in Kinds(RootOnly),
                         bufferViews \in Kinds(BufferViews),
                         materials \in Kinds(Materials),
                         others \in {Absent, Wrong},
                         rtc \in {Absent, Obj(<<5, 6>>)} },
      opts \in {Options(NoTimeline, FALSE, FALSE), Options(Timeline1, FALSE, FALSE)} }

\* family 4: the primitives of the root mesh
ContentTiles ==
  { Tile(L, Scene(Obj(Meshes(prims)), Obj(RootOnly), Obj(BufferViews), Obj(Materials),
                  Obj(EmptyMap), Absent, Absent), opts) :
      L \in {LayoutV2(16, 0)},
      prims \in PrimLists,
      opts \in RootOptions }

\* family 5: the nodes, the feature table and the animation-node ids
NodeTiles ==
  { Tile(L, Scene(Obj(Meshes(DefaultRoot)), Obj(nodes), Obj(BufferViews), Obj(Materials),
                  Obj(EmptyMap), anim, Absent), Options(timeline, untransformed, asserts)) :
      L \in {LayoutV2(16, 0), LayoutV2(20, ImdlFlags_MultiModelFeatureTable), LayoutLegacy(16, 0)},
      nodes \in NodeLists,
      anim \in {Absent, AnimationNodes(1, "bvAnim"), AnimationNodes(2, "bvAnim"),
                AnimationNodes(2, "bv1"), AnimationNodes(3, "bv1"), AnimationNodes(4, "bvNone")},
      timeline \in {NoTimeline, Timeline1},
      untransformed \in BOOLEAN,
      asserts \in BOOLEAN }

Tiles == HeaderTiles \cup GltfTiles \cup SceneKindTiles \cup ContentTiles \cup NodeTiles

(***************************************************************************)
(* The offset engine (PolygonOffsetContext.ts).  Points are pairs of       *)
(* integers, polylines are rectilinear, and fractions along a fragment are *)
(* exact rationals <<numerator, denominator>> with a positive denominator; *)
(* <<0, 0>> stands for an undefined fraction.                              *)
(***************************************************************************)
VARIABLES points, wrap, jointOptions, fragments, joints, joint0, opc, walk, pass,
          removal, chain, offsetResult, trace, chamfer, intersections

offsetVars == <<points, wrap, jointOptions, fragments, joints, joint0, opc, walk, pass,
                removal, chain, offsetResult, trace, chamfer, intersections>>

MaxPoints == 4         \* most points of an input polyline
MaxPasses == 5         \* the pass limit of constructPolygonWireXYOffset
ExtraVisits == 5       \* visitJointsOnChain allows maxTest + 5 callbacks
MaxRemove == 1         \* maxRemove of removeDegeneratePrimitives

Abs(x) == IF x < 0 THEN -x ELSE x
Sign(x) == IF x < 0 THEN -1 ELSE IF x > 0 THEN 1 ELSE 0

RECURSIVE GCD(_, _)
GCD(a, b) == IF b = 0 THEN a ELSE GCD(b, a % b)

Frac(n, d) ==
  LET g == GCD(Abs(n), Abs(d))
  IN  IF d > 0 THEN <<n \div g, d \div g>> ELSE <<(0 - n) \div g, (0 - d) \div g>>
NoFraction == <<0, 0>>
IsFraction(f) == f[2] # 0
Zero == <<0, 1>>
One == <<1, 1>>
FracLess(a, b) == a[1] * b[2] < b[1] * a[2]
FracLeq(a, b) == a[1] * b[2] <= b[1] * a[2]

\* Point3d / Vector3d in the xy-plane
Plus(p, v) == <<p[1] + v[1], p[2] + v[2]>>
Minus(p, q) == <<p[1] - q[1], p[2] - q[2]>>
Scaled(v, s) == <<v[1] * s, v[2] * s>>
Cross(u, v) == u[1] * v[2] - u[2] * v[1]
Dot(u, v) == u[1] * v[1] + u[2] * v[2]
rotate90CCWXY(v) == <<0 - v[2], v[1]>>
isAlmostEqual(p, q) == p = q

\* the unit vector of an axis-parallel vector; the zero vector has none
normalize(v) == <<Sign(v[1]), Sign(v[2])>>

\* the turn angle from u to v in degrees, for axis-parallel vectors
angleToXY(u, v) ==
  IF Cross(u, v) > 0 THEN 90
  ELSE IF Cross(u, v) < 0 THEN -90
  ELSE IF Dot(u, v) < 0 THEN 180 ELSE 0

\* LineSegment3d with the end points of its base segment (applyBasePoints, 714-725)
Segment(point0, point1, baseStart, baseEnd) ==
  [point0 |-> point0, point1 |-> point1, baseCurveStart |-> baseStart, baseCurveEnd |-> baseEnd]
NoCurve == 0

\* fractionToPoint: exact, the points used lie on the integer grid
fractionToPoint(c, f) ==
  <<c.point0[1] + (f[1] * (c.point1[1] - c.point0[1])) \div f[2],
    c.point0[2] + (f[1] * (c.point1[2] - c.point0[2])) \div f[2]>>

\* fractionToPointAndDerivative: the ray at a fraction, its direction the whole segment
Ray(origin, direction) == [origin |-> origin, direction |-> direction]
fractionToPointAndDerivative(c, f) == Ray(fractionToPoint(c, f), Minus(c.point1, c.point0))

\* Ray3d.closestApproachRay3dRay3d in the plane: parallel lines have no intersection
closestApproachRay3dRay3d(ray0, ray1) ==
  LET den == Cross(ray0.direction, ray1.direction)
      w == Minus(ray1.origin, ray0.origin)
  IN  IF den = 0
      THEN [approachType |-> "Parallel", fractionA |-> NoFraction, fractionB |-> NoFraction,
            point |-> ray0.origin]
      ELSE LET fA == Frac(Cross(w, ray1.direction), den)
           IN  [approachType |-> "Intersection",
                fractionA |-> fA,
                fractionB |-> Frac(Cross(w, ray0.direction), den),
                point |-> <<ray0.origin[1] + (fA[1] * ray0.direction[1]) \div fA[2],
                            ray0.origin[2] + (fA[1] * ray0.direction[2]) \div fA[2]>>]

(***************************************************************************)
(* JointOptions (54-135).                                                  *)
(***************************************************************************)
JointOptions(leftOffsetDistance, minArcDegrees, maxChamferDegrees, allowSharpestCorners) ==
  [ leftOffsetDistance |-> leftOffsetDistance, minArcDegrees |-> minArcDegrees,
    maxChamferTurnDegrees |-> maxChamferDegrees, allowSharpestCorners |-> allowSharpestCorners ]
DefaultMinArcDegrees == 180
DefaultMaxChamferDegrees == 90
JointOptions_create(leftOffsetDistance) ==
  JointOptions(leftOffsetDistance, DefaultMinArcDegrees, DefaultMaxChamferDegrees, FALSE)

needArc(opts, theta) == Abs(theta) >= opts.minArcDegrees

clamp(value, lo, hi) == IF value < lo THEN lo ELSE IF value > hi THEN hi ELSE value
CeilDiv(a, b) == (a + b - 1) \div b
MinStepDegreesClamp == 10
MaxStepDegreesClamp == 120
numChamferPoints_unclamped(opts, theta) ==
  IF Abs(theta) <= opts.maxChamferTurnDegrees THEN 1
  ELSE CeilDiv(Abs(theta), opts.maxChamferTurnDegrees)

numChamferPoints_finest(opts, theta) == CeilDiv(Abs(theta), MinStepDegreesClamp)

numChamferPoints(opts, theta) ==
  LET degrees == Abs(theta)
      maxStepDegreesClamp == IF opts.allowSharpestCorners THEN opts.maxChamferTurnDegrees
                             ELSE MaxStepDegreesClamp
      stepDegrees == clamp(opts.maxChamferTurnDegrees, MinStepDegreesClamp, maxStepDegreesClamp)
  IN  IF degrees <= stepDegrees THEN 1 ELSE CeilDiv(degrees, stepDegrees)

(***************************************************************************)
(* Joint (207-600).  Joints live in a heap, a sequence indexed by joint    *)
(* identity; 0 is the undefined joint.  A joint's curves are indices of    *)
(* `fragments`, so two joints hold the same fragment object exactly when   *)
(* they hold the same index.                                               *)
(***************************************************************************)
JointCurve(kind, pts, numInterior) == [kind |-> kind, pts |-> pts, numInterior |-> numInterior]
NoJointCurve == JointCurve("none", <<>>, 0)
NoPoint == <<>>
Joint(curve0, curve1, swingPoint) ==
  [ flexure |-> "Unknown", curve0 |-> curve0, fraction0 |-> NoFraction,
    curve1 |-> curve1, fraction1 |-> NoFraction, jointCurve |-> NoJointCurve,
    swingPoint |-> swingPoint, nextJoint |-> 0, previousJoint |-> 0 ]

\* Joint.link (252-260): the two pointers, then the curve one side lacks
linkPointers(js, j0, j1) ==
  IF j1 # 0
  THEN [js EXCEPT ![j0].nextJoint = j1, ![j1].previousJoint = j0]
  ELSE [js EXCEPT ![j0].nextJoint = j1]

linkCurves(js, j0, j1) ==
  IF js[j0].curve1 # NoCurve /\ j1 # 0 /\ js[j1].curve0 = NoCurve
  THEN [js EXCEPT ![j1].curve0 = js[j0].curve1]
  ELSE IF js[j0].curve1 = NoCurve /\ j1 # 0 /\ js[j1].curve0 # NoCurve
  THEN [js EXCEPT ![j0].curve1 = js[j1].curve0]
  ELSE js

link(js, j0, j1) == linkCurves(linkPointers(js, j0, j1), j0, j1)

\* nextJointFraction0 (265-269)
nextJointFraction0(js, j, defaultValue) ==
  IF js[j].nextJoint # 0 /\ IsFraction(js[js[j].nextJoint].fraction0)
  THEN js[js[j].nextJoint].fraction0
  ELSE defaultValue

\* Joint.constructArc (238-246): an arc about the center from ray0.origin to ray1.origin;
\* of the arc the model keeps its two end points
constructArc_always(ray0, center, ray1) == JointCurve("arc", <<ray0.origin, ray1.origin>>, 0)

constructArc(ray0, center, ray1) ==
  IF center # NoPoint
     /\ Dot(Minus(ray0.origin, center), Minus(ray0.origin, center))
        = Dot(Minus(ray1.origin, center), Minus(ray1.origin, center))
  THEN JointCurve("arc", <<ray0.origin, ray1.origin>>, 0)
  ELSE NoJointCurve

\* the gap segment of annotateExtension (437-440) and annotateJointMode (491-494)
gapJoint(J, c0, c1) ==
  [J EXCEPT !.flexure = "Gap",
            !.jointCurve = JointCurve("segment",
                                      <<fractionToPoint(c0, One), fractionToPoint(c1, Zero)>>, 0),
            !.fraction0 = One,
            !.fraction1 = Zero]

\* Joint.annotateExtension (392-442).  Of a chamfer line string the model keeps the two
\* end points and the number of its interior points.
annotateExtension(J, frags, opts) ==
  IF J.curve0 = NoCurve \/ J.curve1 = NoCurve THEN J
  ELSE
    LET c0 == frags[J.curve0]
        c1 == frags[J.curve1]
        ray0 == fractionToPointAndDerivative(c0, One)
        ray1 == fractionToPointAndDerivative(c1, Zero)
        intersection == closestApproachRay3dRay3d(ray0, ray1)
    IN  IF intersection.approachType = "Intersection"
           /\ FracLeq(Zero, intersection.fractionA) /\ FracLeq(intersection.fractionB, Zero)
        THEN
          LET J1 == [J EXCEPT !.fraction0 = One, !.fraction1 = Zero, !.flexure = "Extend"]
              theta == angleToXY(ray0.direction, ray1.direction)
              arc == constructArc(ray0, c0.baseCurveEnd, ray1)
          IN  IF needArc(opts, theta) /\ arc.kind = "arc"
              THEN [J1 EXCEPT !.jointCurve = arc]
              ELSE IF numChamferPoints(opts, theta) <= 1
              THEN [J1 EXCEPT !.jointCurve =
                      JointCurve("linestring",
                                 <<ray0.origin, intersection.point, ray1.origin>>, 1)]
              ELSE IF arc.kind = "arc"
              THEN [J1 EXCEPT !.jointCurve =
                      JointCurve("chamfer", <<ray0.origin, ray1.origin>>,
                                 numChamferPoints(opts, theta))]
              ELSE gapJoint(J1, c0, c1)
        ELSE gapJoint(J, c0, c1)

\* the test of 475: the fragments already meet at the joint
fragmentsMeet_never(c0, c1) == FALSE

fragmentsMeet(c0, c1) == isAlmostEqual(c0.point1, c1.point0)

\* Joint.annotateJointMode (467-509), the fragments being line segments
annotateJointMode(J, frags, opts) ==
  IF J.curve0 = NoCurve /\ J.curve1 # NoCurve
  THEN [J EXCEPT !.flexure = "Cap", !.fraction1 = Zero]
  ELSE IF J.curve0 # NoCurve /\ J.curve1 = NoCurve
  THEN [J EXCEPT !.flexure = "Cap", !.fraction0 = One]
  ELSE IF J.curve0 # NoCurve /\ J.curve1 # NoCurve
  THEN
    LET c0 == frags[J.curve0]
        c1 == frags[J.curve1]
    IN  IF fragmentsMeet(c0, c1)
        THEN [J EXCEPT !.fraction0 = One, !.fraction1 = Zero, !.flexure = "Trim"]
        ELSE
          LET ray0 == fractionToPointAndDerivative(c0, Zero)
              ray1 == fractionToPointAndDerivative(c1, Zero)
              intersection == closestApproachRay3dRay3d(ray0, ray1)
              f0 == intersection.fractionA
              f1 == intersection.fractionB
              J1 == [J EXCEPT !.fraction0 = f0, !.fraction1 = f1]
          IN  IF intersection.approachType # "Intersection" THEN J
              ELSE IF FracLeq(One, f0) /\ FracLeq(f1, Zero) THEN annotateExtension(J1, frags, opts)
              ELSE IF FracLess(f0, One) /\ FracLess(Zero, f1) THEN [J1 EXCEPT !.flexure = "Trim"]
              ELSE IF FracLess(One, f0) /\ FracLess(One, f1) THEN gapJoint(J1, c0, c1)
              ELSE J1
  ELSE J


\* a candidate of CurveCurve.intersectionXYPairs: the fractions of detailA and detailB
Candidate(fractionA, fractionB) == [fractionA |-> fractionA, fractionB |-> fractionB]

FracSum(a, b) == Frac(a[1] * b[2] + b[1] * a[2], a[2] * b[2])
FracAbsDiff(a, b) == Frac(Abs(a[1] * b[2] - b[1] * a[2]), a[2] * b[2])

\* 450-451
summedDifference(c, fractionA, fractionB) ==
  FracSum(FracAbsDiff(c.fractionA, fractionA), FracAbsDiff(c.fractionB, fractionB))

\* Number.MAX_VALUE (448) is above every sum of two fraction differences
Number_MAX_VALUE == <<1000000, 1>>

\* the loop at 449-456 from candidate i on; i and index count from 0 as in the code
RECURSIVE selectFrom(_, _, _, _, _, _)
selectFrom(fractionA, fractionB, cs, i, index, aMin) ==
  IF ~(i < Len(cs)) THEN index
  ELSE IF FracLess(summedDifference(cs[i + 1], fractionA, fractionB), aMin)
  THEN selectFrom(fractionA, fractionB, cs, i + 1, i,
                  summedDifference(cs[i + 1], fractionA, fractionB))
  ELSE selectFrom(fractionA, fractionB, cs, i + 1, index, aMin)

selectIntersectionIndexByFraction_first(fractionA, fractionB, cs) ==
  IF cs = <<>> THEN 0 - 1 ELSE 0

\* Joint.selectIntersectionIndexByFraction (444-458)
selectIntersectionIndexByFraction(fractionA, fractionB, cs) ==
  selectFrom(fractionA, fractionB, cs, 0, 0 - 1, Number_MAX_VALUE)

\* 500-506: Trim at the candidate of the index, or the extension
trimAtIndex(J, frags, opts, cs, intersectionIndex) ==
  IF intersectionIndex >= 0
  THEN [J EXCEPT !.flexure = "Trim",
                 !.fraction0 = cs[intersectionIndex + 1].fractionA,
                 !.fraction1 = cs[intersectionIndex + 1].fractionB]
  ELSE annotateExtension(J, frags, opts)

\* Joint.annotateJointMode (467-509) at a joint between two fragments of which one is
\* no line segment: the test at 475, then the branch at 497-507 on the candidates that
\* CurveCurve.intersectionXYPairs returned
annotateJointMode_curves(J, frags, opts, cs) ==
  IF fragmentsMeet(frags[J.curve0], frags[J.curve1])
  THEN [J EXCEPT !.fraction0 = One, !.fraction1 = Zero, !.flexure = "Trim"]
  ELSE trimAtIndex(J, frags, opts, cs, selectIntersectionIndexByFraction(One, Zero, cs))

\* one pass step of removeDegeneratePrimitives keeps [jointA, start, numRemoved, numTest]
\* and whether the loop was left by break or return
Removal(jointA, start) ==
  [jointA |-> jointA, start |-> start, numRemoved |-> 0, numTest |-> 0, finished |-> FALSE]

annotateAt(js, j, frags, opts) ==
  IF j = 0 THEN js ELSE [js EXCEPT ![j] = annotateJointMode(js[j], frags, opts)]

\* 594-596: jointA = jointA.nextJoint; if (jointA === start) break
advance(js, R) ==
  [ joints |-> js,
    removal |-> [R EXCEPT !.jointA = js[R.jointA].nextJoint,
                          !.finished = (js[R.jointA].nextJoint = R.start)] ]

\* 556 and 570: the second link reads jointLast.nextJoint after the first link is made
linkAfter(js, newJoint, jointLast) == link(js, newJoint, js[jointLast].nextJoint)

spliceJoint_collapsedCurve(js, jointA, jointLast) ==
  linkAfter(link(Append(js, Joint(js[jointA].curve0, js[jointA].curve1, NoPoint)),
                 js[jointA].previousJoint, Len(js) + 1),
            Len(js) + 1, jointLast)

\* 554-556 and 568-570: a new joint takes the place of the joints jointA .. jointLast
spliceJoint(js, jointA, jointLast) ==
  linkAfter(link(Append(js, Joint(js[jointA].curve0, js[jointLast].curve1, NoPoint)),
                 js[jointA].previousJoint, Len(js) + 1),
            Len(js) + 1, jointLast)

\* 557-561 and 572-576: the new joint and its two neighbours are annotated again
annotatePrevious(js, j, frags, opts) == annotateAt(js, js[j].previousJoint, frags, opts)
annotateNext(js, j, frags, opts) == annotateAt(js, js[j].nextJoint, frags, opts)
reannotate(js, j, frags, opts) ==
  annotateNext(annotatePrevious(annotateAt(js, j, frags, opts), j, frags, opts), j, frags, opts)

\* 552-566: both the fragment after jointA and the one after jointB disappear
doubleCut(js, frags, opts, R) ==
  advance(reannotate(spliceJoint(js, R.jointA, js[js[R.jointA].nextJoint].nextJoint),
                     Len(js) + 1, frags, opts),
          R)

\* 577-592: the count, the start of the chain, and the return at maxRemove
countRemoval(js, R, newJoint) ==
  IF R.numRemoved + 1 >= MaxRemove
  THEN [joints |-> js,
        removal |-> [R EXCEPT !.numRemoved = @ + 1,
                              !.start = IF R.jointA = R.start THEN newJoint ELSE @,
                              !.jointA = newJoint,
                              !.finished = TRUE]]
  ELSE advance(js, [R EXCEPT !.numRemoved = @ + 1,
                             !.start = IF R.jointA = R.start THEN newJoint ELSE @,
                             !.jointA = newJoint])

\* 567-592: the fragment after jointA disappears
singleCut(js, frags, opts, R) ==
  countRemoval(reannotate(spliceJoint(js, R.jointA, js[R.jointA].nextJoint),
                          Len(js) + 1, frags, opts),
               R, Len(js) + 1)

\* 541-542
eliminateF(f0, f1) == FracLeq(f1, f0) \/ FracLess(One, f0)
eliminateG(g0, g1) ==
  \/ IsFraction(g0) /\ FracLess(One, g0)
  \/ IsFraction(g0) /\ IsFraction(g1) /\ FracLeq(g1, g0)

\* one iteration of the loop of Joint.removeDegeneratePrimitives (527-597)
removeDegeneratePrimitives_iteration(js, frags, opts, R0) ==
  LET R == [R0 EXCEPT !.numTest = @ + 1]
      jointA == R.jointA
      jointB == js[jointA].nextJoint
  IN  IF /\ jointB # 0
         /\ js[jointA].previousJoint # 0
         /\ js[jointB].nextJoint # 0
         /\ IsFraction(js[jointA].fraction1)
         /\ IsFraction(js[jointB].fraction0)
      THEN LET f0 == js[jointA].fraction1
               f1 == js[jointB].fraction0
               g0 == js[jointB].fraction1
               g1 == js[js[jointB].nextJoint].fraction0
           IN  IF eliminateF(f0, f1) /\ eliminateG(g0, g1) THEN doubleCut(js, frags, opts, R)
               ELSE IF eliminateF(f0, f1) THEN singleCut(js, frags, opts, R)
               ELSE advance(js, R)
      ELSE advance(js, R)

\* emitStrokes of a line segment or line string into a line string: a point equal to
\* the last point of the destination is not repeated
appendStrokePoint(destination, point) ==
  IF destination # <<>> /\ isAlmostEqual(destination[Len(destination)], point)
  THEN destination
  ELSE Append(destination, point)

RECURSIVE addStrokes(_, _)
addStrokes(destination, pts) ==
  IF pts = <<>> THEN destination
  ELSE addStrokes(appendStrokePoint(destination, Head(pts)), Tail(pts))

\* Joint.addPoint (275-281)
addPoint(destination, point) ==
  IF Len(destination) > 0 /\ ~isAlmostEqual(destination[Len(destination)], point)
  THEN Append(destination, point)
  ELSE destination

\* the callback of Joint.collectStrokesFromChain (288-304) on joint j
collectStrokes(js, frags, destination, j) ==
  LET J == js[j]
      d1 == addStrokes(destination, J.jointCurve.pts)
  IN  IF J.curve1 # NoCurve /\ IsFraction(J.fraction1)
      THEN LET c == frags[J.curve1]
               fA == J.fraction1
               fB == nextJointFraction0(js, j, One)
               curve1 == IF fA = Zero /\ fB = One THEN <<c.point0, c.point1>>
                         ELSE IF FracLess(fA, fB)
                         THEN <<fractionToPoint(c, fA), fractionToPoint(c, fB)>>
                         ELSE <<>>
               d2 == IF curve1 # <<>> /\ J.jointCurve.kind = "none"
                     THEN addPoint(d1, curve1[1]) ELSE d1
           IN  addStrokes(d2, curve1)
      ELSE d1

\* the part of fragment curve1 that the callback emits for joint j (291-296 and 302):
\* the fragment and the fractions it is cut at, or nothing
emittedPiece(js, frags, j) ==
  IF js[j].curve1 # NoCurve /\ IsFraction(js[j].fraction1)
     /\ \/ js[j].fraction1 = Zero /\ nextJointFraction0(js, j, One) = One
        \/ FracLess(js[j].fraction1, nextJointFraction0(js, j, One))
  THEN <<[curve |-> js[j].curve1, fA |-> js[j].fraction1, fB |-> nextJointFraction0(js, j, One)]>>
  ELSE <<>>

(***************************************************************************)
(* PolygonWireOffsetContext (613-698).                                     *)
(***************************************************************************)
\* createOffsetSegment (623-637): no segment when the base points coincide
createOffsetSegment(basePointA, basePointB, distance) ==
  IF basePointA = basePointB THEN <<>>
  ELSE LET unitAlong == normalize(Minus(basePointB, basePointA))
           unitPerp == rotate90CCWXY(unitAlong)
       IN  <<Segment(Plus(basePointA, Scaled(unitPerp, distance)),
                     Plus(basePointB, Scaled(unitPerp, distance)),
                     basePointA, basePointB)>>

\* 656-662: the joints at the interior points
RECURSIVE interiorJoints(_, _, _, _, _, _, _)
interiorJoints(pts, distance, i, frags, js, previousJoint, fragment0) ==
  IF i + 1 > Len(pts)
  THEN [fragments |-> frags, joints |-> js, previousJoint |-> previousJoint,
        fragment0 |-> fragment0]
  ELSE LET created == createOffsetSegment(pts[i], pts[i + 1], distance)
           frags1 == frags \o created
           fragment1 == IF created = <<>> THEN NoCurve ELSE Len(frags1)
           js1 == Append(js, Joint(fragment0, fragment1, pts[i]))
           newJoint == Len(js1)
       IN  interiorJoints(pts, distance, i + 1, frags1, link(js1, previousJoint, newJoint),
                          newJoint, fragment1)

\* 650-669: the raw offsets as a linked list of joints
buildChain(pts, wrapped, opts) ==
  LET created == createOffsetSegment(pts[1], pts[2], opts.leftOffsetDistance)
      fragment0 == IF created = <<>> THEN NoCurve ELSE 1
      r == interiorJoints(pts, opts.leftOffsetDistance, 2, created,
                          <<Joint(NoCurve, fragment0, pts[1])>>, 1, fragment0)
  IN  IF wrapped
      THEN [fragments |-> r.fragments, joints |-> link(r.joints, r.previousJoint, 1),
            joint0 |-> 1]
      ELSE LET js1 == Append(r.joints, Joint(r.fragment0, NoCurve, pts[Len(pts)]))
           IN  [fragments |-> r.fragments, joints |-> link(js1, r.previousJoint, Len(js1)),
                joint0 |-> 1]

(***************************************************************************)
(* CurveChainWireOffsetContext (704-806).  The children of the Path or     *)
(* Loop are the line segments between consecutive points; the offset of a  *)
(* line segment (LineSegment3d.constructOffsetXY) is the displaced segment *)
(* or undefined for a segment without length.                              *)
(***************************************************************************)
children(pts) == [i \in 1..(Len(pts) - 1) |-> <<pts[i], pts[i + 1]>>]

\* createSingleOffsetPrimitiveXY (733-749): the offset labelled with the base end points
createSingleOffsetPrimitiveXY(g, distance) == createOffsetSegment(g[1], g[2], distance)

\* 764-778: the offsets that exist, in order
RECURSIVE simpleOffsets(_, _, _)
simpleOffsets(cs, distance, i) ==
  IF i > Len(cs) THEN <<>>
  ELSE createSingleOffsetPrimitiveXY(cs[i], distance) \o simpleOffsets(cs, distance, i + 1)

\* 790-791: a new joint is linked to the joint made before it
linkPrevious(js, newJoint) == IF newJoint > 1 THEN link(js, newJoint - 1, newJoint) ELSE js

\* 784-795: one joint per offset, the first without curve0
RECURSIVE curveJoints(_, _, _)
curveJoints(frags, i, js) ==
  IF i > Len(frags) THEN js
  ELSE curveJoints(frags, i + 1,
                   linkPrevious(Append(js, Joint(IF i = 1 THEN NoCurve ELSE i - 1, i,
                                                 fractionToPoint(frags[i], Zero))),
                                i))

\* 796-797: a Loop links the last joint to the first
closeChain_never(js, isLoop) == js

closeChain(js, isLoop) == IF js # <<>> /\ isLoop THEN link(js, Len(js), 1) ELSE js

\* 779-797: the joints of constructCurveXYOffset
buildCurveChain(frags, isLoop) == closeChain(curveJoints(frags, 1, <<>>), isLoop)

\* 689-696
wrapChain_path(destination) ==
  IF Len(destination) > 1
  THEN [kind |-> "Path", points |-> destination]
  ELSE [kind |-> "undefined", points |-> <<>>]

wrapChain(destination) ==
  IF Len(destination) > 1
  THEN IF isAlmostEqual(destination[1], destination[Len(destination)])
       THEN [kind |-> "Loop", points |-> destination]
       ELSE [kind |-> "Path", points |-> destination]
  ELSE [kind |-> "undefined", points |-> <<>>]

\* the whole state
vars == <<decoderVars, offsetVars>>

\* the offset engine is idle while a tile is decoded, and conversely
NoWalk == [joint |-> 0, numTest |-> 0, numOut |-> 0]

\* what a call has done so far, kept for the properties only: the trimmed fragments
\* emitted, the joints spliced in by the running pass, the finished passes, and the
\* callbacks of the last walk of each kind
NoTrace == [emitted |-> <<>>, cutsInPass |-> 0, passes |-> <<>>, annotated |-> 0, collected |-> 0]

\* a turn angle in degrees and the chamfer point count computed for it, -1 before the
\* computation
NotComputed == 0 - 1
Chamfer(theta, count) == [theta |-> theta, count |-> count]
NoChamfer == Chamfer(0, NotComputed)
OffsetIdle ==
  /\ points = <<>>
  /\ wrap = FALSE
  /\ jointOptions = JointOptions_create(0)
  /\ fragments = <<>>
  /\ joints = <<>>
  /\ joint0 = 0
  /\ opc = "idle"
  /\ walk = NoWalk
  /\ pass = 0
  /\ removal = Removal(0, 0)
  /\ chain = <<>>
  /\ offsetResult = [kind |-> "pending", points |-> <<>>]
  /\ trace = NoTrace
  /\ chamfer = NoChamfer
  /\ intersections = <<>>

(***************************************************************************)
(* The state machine: one parseImdlDocument call on one tile.              *)
(***************************************************************************)
Input == [buffer |-> buffer, sceneAt |-> sceneAt, sceneJson |-> sceneJson, options |-> options]

Call ==
  [ pc |-> pc, curPos |-> curPos, readLog |-> readLog, imdlHeader |-> imdlHeader,
    ftStartPos |-> ftStartPos, gltfHeader |-> gltfHeader, sceneStr |-> sceneStr,
    imdlDoc |-> imdlDoc, featureTable |-> featureTable, result |-> result ]

Apply(st) ==
  /\ pc' = st.pc
  /\ curPos' = st.curPos
  /\ readLog' = st.readLog
  /\ imdlHeader' = st.imdlHeader
  /\ ftStartPos' = st.ftStartPos
  /\ gltfHeader' = st.gltfHeader
  /\ sceneStr' = st.sceneStr
  /\ imdlDoc' = st.imdlDoc
  /\ featureTable' = st.featureTable
  /\ result' = st.result
  /\ UNCHANGED <<buffer, sceneAt, sceneJson, options>>
  /\ UNCHANGED offsetVars

Init ==
  /\ \E t \in Tiles :
       /\ buffer = t.buffer
       /\ sceneAt = t.sceneAt
       /\ sceneJson = t.sceneJson
       /\ options = t.options
  /\ pc = InitialCall.pc
  /\ curPos = InitialCall.curPos
  /\ readLog = InitialCall.readLog
  /\ imdlHeader = InitialCall.imdlHeader
  /\ ftStartPos = InitialCall.ftStartPos
  /\ gltfHeader = InitialCall.gltfHeader
  /\ sceneStr = InitialCall.sceneStr
  /\ imdlDoc = InitialCall.imdlDoc
  /\ featureTable = InitialCall.featureTable
  /\ result = InitialCall.result
  /\ OffsetIdle

ReadImdlHeader == pc = "start" /\ Apply(stepImdlHeader(Input, Call))
ReadFeatureTableHeader == pc = "ftHeader" /\ Apply(stepFeatureTableHeader(Input, Call))
ReadGltfHeader == pc = "gltfHeader" /\ Apply(stepGltfHeader(Input, Call))
ExtractScene == pc = "scene" /\ Apply(stepScene(Input, Call))
ParseScene == pc = "parse" /\ Apply(stepParse(Input, Call))
ParseFeatureTable == pc = "featureTable" /\ Apply(stepFeatureTable(Input, Call))
ParseNodes == pc = "nodes" /\ Apply(stepNodes(Input, Call))

Next ==
  \/ ReadImdlHeader
  \/ ReadFeatureTableHeader
  \/ ReadGltfHeader
  \/ ExtractScene
  \/ ParseScene
  \/ ParseFeatureTable
  \/ ParseNodes

Spec == Init /\ [][Next]_vars


(***************************************************************************)
(* The state machine of one constructPolygonWireXYOffset call (640-697).   *)
(***************************************************************************)
StepLengths == {1, 2}
Directions == {<<1, 0>>, <<0, 1>>, <<-1, 0>>, <<0, -1>>}
Moves == { Scaled(d, n) : d \in Directions, n \in StepLengths }
Distances == {-1, 0, 1}

\* the polyline that starts at a point and goes along the moves from the i-th on
RECURSIVE pathAlong(_, _, _)
pathAlong(point, moves, i) ==
  IF i > Len(moves) THEN <<point>>
  ELSE <<point>> \o pathAlong(Plus(point, moves[i]), moves, i + 1)

\* rectilinear polylines from the origin whose first edge runs along +x; consecutive
\* points differ
Polylines ==
  { pathAlong(<<0, 0>>, <<<<x, 0>>>> \o moves, 1) :
      x \in StepLengths, moves \in UNION { [1..n -> Moves] : n \in 0..(MaxPoints - 2) } }

\* closed rectangles, counterclockwise and clockwise
Rectangle(w, h) == <<<<0, 0>>, <<w, 0>>, <<w, h>>, <<0, h>>, <<0, 0>>>>
Rectangles ==
  { Rectangle(w, h) : w \in StepLengths, h \in StepLengths }
  \cup { Rectangle(w, 0 - h) : w \in StepLengths, h \in StepLengths }

\* closed squares, offset also by more than half their side
SquareSides == {1, 2, 3}
SquareDistances == {-2, -1, 1, 2}
Squares == { Rectangle(a, a) : a \in SquareSides } \cup { Rectangle(a, 0 - a) : a \in SquareSides }

\* one corner or none: the polylines of two and three points
Corners == { pl \in Polylines : Len(pl) <= 3 }

\* polylines with a point repeated
Repeated ==
  { <<<<0, 0>>, <<0, 0>>>>,
    <<<<0, 0>>, <<0, 0>>, <<1, 0>>>>,
    <<<<0, 0>>, <<1, 0>>, <<1, 0>>>>,
    <<<<0, 0>>, <<1, 0>>, <<1, 0>>, <<1, 1>>>> }

\* options other than the default ones: arcs at right angles, chamfers of two and
\* of three points
OtherOptions(d) ==
  { JointOptions(d, 90, 90, FALSE), JointOptions(d, 180, 45, FALSE), JointOptions(d, 180, 30, FALSE) }

\* closed rectangles three times as long as wide, of which an offset inward by the
\* width leaves the long sides only
LongRectangles ==
  { Rectangle(1, 3), Rectangle(3, 1), Rectangle(1, 0 - 3), Rectangle(3, 0 - 1) }

OffsetInput(pl, w, opts) == [points |-> pl, wrap |-> w, options |-> opts]
OffsetInputs ==
  { OffsetInput(pl, w, JointOptions_create(d)) :
      pl \in Polylines \cup Rectangles, w \in BOOLEAN, d \in Distances }
  \cup { OffsetInput(pl, w, JointOptions_create(d)) :
           pl \in Squares, w \in BOOLEAN, d \in SquareDistances }
  \cup UNION { { OffsetInput(pl, w, opts) : pl \in Corners \cup Rectangles, w \in BOOLEAN,
                                            opts \in OtherOptions(d) } : d \in Distances }
  \cup UNION { { OffsetInput(pl, TRUE, opts) : pl \in Squares, opts \in OtherOptions(d) } :
                 d \in SquareDistances }
  \cup { OffsetInput(pl, FALSE, JointOptions_create(d)) : pl \in Repeated, d \in Distances }
  \cup { OffsetInput(pl, TRUE, JointOptions_create(d)) : pl \in LongRectangles, d \in {-1, 1} }

DecoderIdle ==
  /\ buffer = <<>>
  /\ sceneAt = [pos |-> 0, len |-> 0]
  /\ sceneJson = [k |-> "malformed"]
  /\ options = Options(NoTimeline, FALSE, FALSE)
  /\ pc = "idle"
  /\ curPos = InitialCall.curPos
  /\ readLog = InitialCall.readLog
  /\ imdlHeader = InitialCall.imdlHeader
  /\ ftStartPos = InitialCall.ftStartPos
  /\ gltfHeader = InitialCall.gltfHeader
  /\ sceneStr = InitialCall.sceneStr
  /\ imdlDoc = InitialCall.imdlDoc
  /\ featureTable = InitialCall.featureTable
  /\ result = InitialCall.result

InitOffset ==
  /\ DecoderIdle
  /\ \E in \in OffsetInputs :
       /\ points = in.points
       /\ wrap = in.wrap
       /\ jointOptions = in.options
  /\ fragments = <<>>
  /\ joints = <<>>
  /\ joint0 = 0
  /\ opc = "build"
  /\ walk = NoWalk
  /\ pass = 0
  /\ removal = Removal(0, 0)
  /\ chain = <<>>
  /\ offsetResult = [kind |-> "pending", points |-> <<>>]
  /\ trace = NoTrace
  /\ chamfer = NoChamfer
  /\ intersections = <<>>

maxTest_twice == 2 * Len(points)

maxTest == Len(points)

\* 646-669: the wrap test and the construction of the chain
BuildChain ==
  /\ opc = "build"
  /\ LET wrapped == wrap /\ isAlmostEqual(points[1], points[Len(points)])
         built == buildChain(points, wrapped, jointOptions)
     IN  /\ wrap' = wrapped
         /\ fragments' = built.fragments
         /\ joints' = built.joints
         /\ joint0' = built.joint0
         /\ walk' = [joint |-> built.joint0, numTest |-> 0, numOut |-> 0]
  /\ opc' = "annotate"
  /\ UNCHANGED <<points, jointOptions, pass, removal, chain, offsetResult, trace, chamfer, intersections, decoderVars>>

\* Joint.annotateChain (365-368): one turn of the loop of visitJointsOnChain (375-390)
AnnotateJoint ==
  /\ opc = "annotate"
  /\ IF walk.joint = 0 \/ walk.numTest >= maxTest + ExtraVisits
     THEN /\ opc' = "passes"
          /\ UNCHANGED <<joints, walk, trace>>
     ELSE LET next == joints[walk.joint].nextJoint
          IN  /\ joints' = annotateAt(joints, walk.joint, fragments, jointOptions)
              /\ walk' = [walk EXCEPT !.joint = next, !.numTest = @ + 1]
              /\ trace' = [trace EXCEPT !.annotated = @ + 1]
              /\ opc' = IF next = joint0 \/ next = 0 THEN "passes" ELSE "annotate"
  /\ UNCHANGED <<points, wrap, jointOptions, fragments, joint0, pass, removal, chain,
                 offsetResult, chamfer, intersections, decoderVars>>

\* 673: the head of the pass loop
BeginPass ==
  /\ opc = "passes"
  /\ IF pass < MaxPasses
     THEN /\ removal' = Removal(joint0, joint0)
          /\ opc' = "remove"
          /\ UNCHANGED walk
     ELSE /\ walk' = [joint |-> joint0, numTest |-> 0, numOut |-> 0 - 2 * maxTest]
          /\ opc' = "collect"
          /\ UNCHANGED removal
  /\ pass' = pass + 1
  /\ UNCHANGED <<points, wrap, jointOptions, fragments, joints, joint0, chain, offsetResult,
                 trace, chamfer, intersections, decoderVars>>

\* 528: the loop of removeDegeneratePrimitives goes on
removalContinues ==
  /\ opc = "remove"
  /\ ~removal.finished
  /\ removal.jointA # 0
  /\ removal.numTest < maxTest

\* one turn of the loop of removeDegeneratePrimitives
RemoveStep ==
  /\ removalContinues
  /\ LET r == removeDegeneratePrimitives_iteration(joints, fragments, jointOptions, removal)
     IN  /\ joints' = r.joints
         /\ removal' = r.removal
         /\ trace' = [trace EXCEPT !.cutsInPass = @ + (Len(r.joints) - Len(joints))]
  /\ UNCHANGED <<points, wrap, jointOptions, fragments, joint0, opc, walk, pass, chain,
                 offsetResult, chamfer, intersections, decoderVars>>

\* 674-677: the pass returns; a pass that removed nothing ends the passes
EndPass ==
  /\ opc = "remove"
  /\ removal.finished \/ removal.jointA = 0 \/ removal.numTest >= maxTest
  /\ joint0' = removal.start
  /\ IF removal.numRemoved = 0
     THEN /\ walk' = [joint |-> removal.start, numTest |-> 0, numOut |-> 0 - 2 * maxTest]
          /\ opc' = "collect"
     ELSE /\ opc' = "passes"
          /\ UNCHANGED walk
  /\ trace' = [trace EXCEPT !.cutsInPass = 0,
                            !.passes = Append(@, [numJointRemoved |-> removal.numRemoved,
                                                  cuts |-> trace.cutsInPass,
                                                  iterations |-> removal.numTest])]
  /\ UNCHANGED <<points, wrap, jointOptions, fragments, joints, pass, removal, chain,
                 offsetResult, chamfer, intersections, decoderVars>>

\* Joint.collectStrokesFromChain (283-308): one turn of the loop of visitJointsOnChain
CollectJoint ==
  /\ opc = "collect"
  /\ IF walk.joint = 0 \/ walk.numTest >= maxTest + ExtraVisits
     THEN /\ opc' = "wrap"
          /\ UNCHANGED <<chain, walk, trace>>
     ELSE LET next == joints[walk.joint].nextJoint
          IN  /\ chain' = collectStrokes(joints, fragments, chain, walk.joint)
              /\ trace' = [trace EXCEPT !.collected = @ + 1,
                                        !.emitted = @ \o emittedPiece(joints, fragments,
                                                                      walk.joint)]
              /\ walk' = [walk EXCEPT !.joint = next, !.numTest = @ + 1, !.numOut = @ + 1]
              /\ opc' = IF ~(walk.numOut < maxTest) \/ next = joint0 \/ next = 0
                        THEN "wrap" ELSE "collect"
  /\ UNCHANGED <<points, wrap, jointOptions, fragments, joints, joint0, pass, removal,
                 offsetResult, chamfer, intersections, decoderVars>>

\* 689-696
WrapResult ==
  /\ opc = "wrap"
  /\ offsetResult' = wrapChain(chain)
  /\ opc' = "done"
  /\ UNCHANGED <<points, wrap, jointOptions, fragments, joints, joint0, walk, pass, removal,
                 chain, trace, chamfer, intersections, decoderVars>>

NextOffset ==
  \/ BuildChain
  \/ AnnotateJoint
  \/ BeginPass
  \/ RemoveStep
  \/ EndPass
  \/ CollectJoint
  \/ WrapResult

SpecOffset == InitOffset /\ [][NextOffset]_vars

\* The call runs on: a step that can be taken is taken.  BuildChain, AnnotateJoint
\* and RemoveStep assign every variable once their guard holds, so the guard stands
\* for ENABLED in their weak fairness.
SpecOffsetFair ==
  /\ SpecOffset
  /\ []<>(opc # "build") \/ []<><<BuildChain>>_vars
  /\ []<>(opc # "annotate") \/ []<><<AnnotateJoint>>_vars
  /\ []<>(~removalContinues) \/ []<><<RemoveStep>>_vars
  /\ WF_vars(BeginPass)
  /\ WF_vars(EndPass)
  /\ WF_vars(CollectJoint)
  /\ WF_vars(WrapResult)

(***************************************************************************)
(* The chain of joints as each entry point builds it: 650-669 of           *)
(* constructPolygonWireXYOffset and 762-797 of constructCurveXYOffset, on  *)
(* the same polylines, taken as points or as a Path or Loop of segments.   *)
(***************************************************************************)
InitChain ==
  /\ DecoderIdle
  /\ \E in \in OffsetInputs :
       /\ points = in.points
       /\ wrap = in.wrap
       /\ jointOptions = in.options
  /\ fragments = <<>>
  /\ joints = <<>>
  /\ joint0 = 0
  /\ opc \in {"build", "curveBuild"}
  /\ walk = NoWalk
  /\ pass = 0
  /\ removal = Removal(0, 0)
  /\ chain = <<>>
  /\ offsetResult = [kind |-> "pending", points |-> <<>>]
  /\ trace = NoTrace
  /\ chamfer = NoChamfer
  /\ intersections = <<>>

BuildCurveChain ==
  /\ opc = "curveBuild"
  /\ fragments' = simpleOffsets(children(points), jointOptions.leftOffsetDistance, 1)
  /\ joints' = buildCurveChain(fragments', wrap)
  /\ joint0' = IF joints' = <<>> THEN 0 ELSE 1
  /\ opc' = "curveBuilt"
  /\ UNCHANGED <<points, wrap, jointOptions, walk, pass, removal, chain, offsetResult, trace,
                 chamfer, intersections, decoderVars>>

NextChain ==
  \/ BuildChain
  \/ BuildCurveChain

SpecChain == InitChain /\ [][NextChain]_vars

(***************************************************************************)
(* One joint on its own: Joint.annotateJointMode, or Joint.annotateExtension *)
(* as the branch for other curves calls it (505), on a joint between two   *)
(* fragments placed freely.  Fragment 0 lies on the x axis and is the      *)
(* offset, by 1 to either side, of its base segment.                       *)
(***************************************************************************)
GridX == (0 - 1)..3
GridY == (0 - 2)..2
Fragments0 ==
  { Segment(<<0, 0>>, <<a, 0>>, <<0, b>>, <<a, b>>) : a \in StepLengths, b \in {0 - 1, 1} }
Fragments1 ==
  { Segment(<<x, y>>, Plus(<<x, y>>, mv), <<x, y>>, Plus(<<x, y>>, mv)) :
      x \in GridX, y \in GridY, mv \in Moves }
JointOptionSets ==
  { JointOptions(1, a, c, FALSE) : a \in {90, 180}, c \in {30, 45, 90} }

InitJoint ==
  /\ DecoderIdle
  /\ points = <<>>
  /\ wrap = FALSE
  /\ jointOptions \in JointOptionSets
  /\ \E c0 \in Fragments0 : \E c1 \in Fragments1 : fragments = <<c0, c1>>
  /\ joints = <<Joint(1, 2, NoPoint)>>
  /\ joint0 = 1
  /\ opc = "joint"
  /\ walk = NoWalk
  /\ pass = 0
  /\ removal = Removal(0, 0)
  /\ chain = <<>>
  /\ offsetResult = [kind |-> "pending", points |-> <<>>]
  /\ trace = NoTrace
  /\ chamfer = NoChamfer
  /\ intersections = <<>>

AnnotateJointMode ==
  /\ opc = "joint"
  /\ joints' = annotateAt(joints, 1, fragments, jointOptions)
  /\ opc' = "jointMode"
  /\ UNCHANGED <<points, wrap, jointOptions, fragments, joint0, walk, pass, removal, chain,
                 offsetResult, trace, chamfer, intersections, decoderVars>>

AnnotateExtension ==
  /\ opc = "joint"
  /\ joints' = <<annotateExtension(joints[1], fragments, jointOptions)>>
  /\ opc' = "extension"
  /\ UNCHANGED <<points, wrap, jointOptions, fragments, joint0, walk, pass, removal, chain,
                 offsetResult, trace, chamfer, intersections, decoderVars>>

NextJoint ==
  \/ AnnotateJointMode
  \/ AnnotateExtension

SpecJoint == InitJoint /\ [][NextJoint]_vars

(***************************************************************************)
(* One joint between two fragments of which one is no line segment.  Of    *)
(* such a fragment the model keeps the end points and the end tangents;    *)
(* the intersections of the two fragments are a list of fraction pairs     *)
(* within [0, 1], in any order, which holds (1, 0) when the fragments meet *)
(* end to start.                                                           *)
(***************************************************************************)
MaxCandidates == 3
Half == Frac(1, 2)
Candidates ==
  { Candidate(One, Zero), Candidate(Half, Zero), Candidate(One, Half), Candidate(Half, Half),
    Candidate(Zero, One) }
CandidateLists == UNION { [1..n -> Candidates] : n \in 0..MaxCandidates }
CurveFragments1 ==
  { Segment(<<x, y>>, Plus(<<x, y>>, mv), <<x, y>>, Plus(<<x, y>>, mv)) :
      x \in {1, 2}, y \in {0, 1}, mv \in {<<1, 0>>, <<0, 1>>} }

InitCurveJoint ==
  /\ DecoderIdle
  /\ points = <<>>
  /\ wrap = FALSE
  /\ jointOptions = JointOptions(1, 180, 90, FALSE)
  /\ \E c1 \in CurveFragments1 : fragments = <<Segment(<<0, 0>>, <<1, 0>>, <<0, 1>>, <<1, 1>>), c1>>
  /\ joints = <<Joint(1, 2, NoPoint)>>
  /\ joint0 = 1
  /\ opc = "curveJoint"
  /\ walk = NoWalk
  /\ pass = 0
  /\ removal = Removal(0, 0)
  /\ chain = <<>>
  /\ offsetResult = [kind |-> "pending", points |-> <<>>]
  /\ trace = NoTrace
  /\ chamfer = NoChamfer
  /\ intersections \in CandidateLists
  /\ fragmentsMeet(fragments[1], fragments[2])
       => \E i \in 1..Len(intersections) : intersections[i] = Candidate(One, Zero)

AnnotateCurveJoint ==
  /\ opc = "curveJoint"
  /\ joints' = <<annotateJointMode_curves(joints[1], fragments, jointOptions, intersections)>>
  /\ opc' = "curveJointMode"
  /\ UNCHANGED <<points, wrap, jointOptions, fragments, joint0, walk, pass, removal, chain,
                 offsetResult, trace, chamfer, intersections, decoderVars>>

NextCurveJoint == AnnotateCurveJoint

SpecCurveJoint == InitCurveJoint /\ [][NextCurveJoint]_vars

(***************************************************************************)
(* JointOptions.numChamferPoints on its own: one call on one turn angle,   *)
(* in whole degrees, with one setting of the options.                      *)
(***************************************************************************)
MaxTurnDegrees == 180
TurnDegrees == (0 - MaxTurnDegrees)..MaxTurnDegrees
MaxChamferTurns == {1, 5, 9, 10, 11, 30, 45, 90, 119, 120, 121, 150, 180}

InitChamfer ==
  /\ DecoderIdle
  /\ points = <<>>
  /\ wrap = FALSE
  /\ \E m \in MaxChamferTurns : \E a \in BOOLEAN :
       jointOptions = JointOptions(0, DefaultMinArcDegrees, m, a)
  /\ fragments = <<>>
  /\ joints = <<>>
  /\ joint0 = 0
  /\ opc = "chamfer"
  /\ walk = NoWalk
  /\ pass = 0
  /\ removal = Removal(0, 0)
  /\ chain = <<>>
  /\ offsetResult = [kind |-> "pending", points |-> <<>>]
  /\ trace = NoTrace
  /\ \E theta \in TurnDegrees : chamfer = Chamfer(theta, NotComputed)
  /\ intersections = <<>>

NumChamferPoints ==
  /\ opc = "chamfer"
  /\ chamfer.count = NotComputed
  /\ chamfer' = [chamfer EXCEPT !.count = numChamferPoints(jointOptions, chamfer.theta)]
  /\ UNCHANGED <<points, wrap, jointOptions, fragments, joints, joint0, opc, walk, pass,
                 removal, chain, offsetResult, trace, intersections, decoderVars>>

NextChamfer == NumChamferPoints

SpecChamfer == InitChamfer /\ [][NextChamfer]_vars


(***************************************************************************)
(* Properties of parseImdlDocument.                                        *)
(***************************************************************************)
Done == pc = "done"
StatusCodes ==
  {"InvalidHeader", "NewerMajorVersion", "InvalidFeatureTable", "InvalidTileData", "InvalidScene"}
ftHeaderOf(buf) == FeatureTableHeader_readFrom(buf, ImdlHeaderSize)
gltfPosOf(buf) == ImdlHeaderSize + ftHeaderOf(buf).length
HeaderAccepted == headerStatus(ImdlHeader(buffer)) = "ok"
FtHeaderRead == HeaderAccepted /\ IsDef(ftHeaderOf(buffer))

\* C1: whatever the bytes of the tile, the call ends with a document or with exactly
\* one of the five status codes, and with nothing else: no exception leaves the call,
\* whichever stage meets the malformed data.
C1_DocumentOrStatus ==
  /\ Done => result.status \in StatusCodes \cup {"Success"}
  /\ ~Done => result = Pending
  /\ result.status # "Threw"

\* C1 witness: the feature table is materialized and an exception of the node
\* traversal is converted to a status code
C1_Witness ==
  /\ Done
  /\ result = Status("InvalidTileData")
  /\ "ftBody" \in readLog
  /\ IsDef(featureTable)

gltfHeaderOf(buf) == GltfHeader(buf, gltfPosOf(buf))

\* the stages before JSON.parse pass and the scene text is the JSON of an object
SceneObjectParsed ==
  /\ FtHeaderRead
  /\ GltfHeader_isValid(gltfHeaderOf(buffer))
  /\ sceneAt.len > 0
  /\ nextBytes(buffer, gltfHeaderOf(buffer).scenePosition,
               gltfHeaderOf(buffer).sceneStrLength) = sceneAt
  /\ sceneJson.k = "obj"

C2_FollowingBytesValid ==
  /\ SceneObjectParsed
  /\ sceneJson.meshes.k = "obj"
  /\ gltfHeaderOf(buffer).binaryPosition <= Len(buffer)

C3_NewerMajorVersion ==
  (Done /\ ImdlHeader_isValid(ImdlHeader(buffer))
        /\ ~ImdlHeader_isReadableVersion(ImdlHeader(buffer)))
    => /\ result = Status("NewerMajorVersion")
       /\ curPos = ImdlHeaderSize
       /\ readLog = {"tileHeader"}

C3_Witness ==
  /\ Done
  /\ ImdlHeader(buffer).format = TileFormat_IModel
  /\ ImdlHeader(buffer).versionMajor = CurrentImdlMajor + 1
  /\ Len(buffer) > ImdlHeaderSize
  /\ result = Status("NewerMajorVersion")


\* the same tile with the version field of the glTF chunk header set to 1
PatchVersion1(buf) ==
  LET at == gltfPosOf(buf) + 4
  IN  [i \in 1..Len(buf) |->
         IF i > at /\ i <= at + 4 THEN U32(GltfVersions_Version1)[i - at] ELSE buf[i]]

C4_IsLegacy ==
  /\ FtHeaderRead
  /\ gltfPosOf(buffer) + 20 <= Len(buffer)
  /\ readUint32(buffer, gltfPosOf(buffer) + 4) = GltfVersions_Version2
  /\ readUint32(buffer, gltfPosOf(buffer) + 16) = GltfVersions_Gltf1SceneFormat

\* C4: a glTF chunk header of version 2 whose word after the scene-string length is
\* the version-1 scene-format sentinel is read as version 1: its validity,
\* scenePosition and binaryPosition, and the result of the whole call, are those of
\* the same tile with the version field set to 1.
C4_LegacySentinel ==
  C4_IsLegacy =>
    LET asV2 == gltfHeaderOf(buffer)
        asV1 == gltfHeaderOf(PatchVersion1(buffer))
    IN  /\ readUint32(PatchVersion1(buffer), gltfPosOf(buffer) + 4) = GltfVersions_Version1
        /\ GltfHeader_isValid(asV2) = GltfHeader_isValid(asV1)
        /\ asV2.scenePosition = asV1.scenePosition
        /\ asV2.binaryPosition = asV1.binaryPosition
        /\ asV2.scenePosition = gltfPosOf(buffer) + 20
        /\ Done => result = parseImdlDocument([Input EXCEPT !.buffer = PatchVersion1(buffer)]).result

C4_Witness ==
  /\ Done
  /\ C4_IsLegacy
  /\ result.status = "Success"
  /\ result.nodes # <<>>
  /\ result.binaryData.byteOffset = gltfPosOf(buffer) + 20 + sceneAt.len

DocumentFields == {"status", "featureTable", "nodes", "rtcCenter", "binaryData", "json"}

\* some primitive of the root mesh raises an exception when it is parsed
RootPrimitiveThrows ==
  /\ sceneJson.nodes.k = "obj"
  /\ \E i \in 1..Len(sceneJson.nodes.v) :
       /\ sceneJson.nodes.v[i].key = Node_Root
       /\ sceneJson.nodes.v[i].mesh = "meshRoot"
  /\ sceneJson.meshes.v["meshRoot"].primitives.k = "obj"
  /\ \E j \in 1..Len(sceneJson.meshes.v["meshRoot"].primitives.v) :
       sceneJson.meshes.v["meshRoot"].primitives.v[j] = ThrowingPrim

\* C5: the call never ends with a part of a document.  Its result is a status code
\* alone, or a document with all of featureTable, nodes, rtcCenter, binaryData and
\* json; node traversal starts only with a feature table; and an exception of
\* JSON.parse, of the document's construction or of the node traversal ends the call
\* with InvalidTileData.
C5_NoPartialDocument ==
  /\ Done =>
       \/ /\ result.status \in StatusCodes
          /\ DOMAIN result = {"status"}
       \/ /\ result.status = "Success"
          /\ DOMAIN result = DocumentFields
          /\ result.featureTable.k = "table"
          /\ result.json = imdlDoc
          /\ result.json.meshes.k = "obj"
          /\ result.binaryData.byteOffset = gltfHeader.binaryPosition
  /\ pc = "nodes" => featureTable.k = "table"
  /\ (Done /\ FtHeaderRead /\ GltfHeader_isValid(gltfHeaderOf(buffer)) /\ sceneStr.len > 0
           /\ (sceneStr # sceneAt \/ sceneJson.k \in {"malformed", "null"}))
       => result = Status("InvalidTileData")
  /\ (Done /\ IsDef(featureTable) /\ RootPrimitiveThrows)
       => result = Status("InvalidTileData")

C5_Witness ==
  /\ Done
  /\ result = Status("InvalidTileData")
  /\ sceneStr = sceneAt
  /\ sceneStr.len > 0
  /\ sceneJson.k = "malformed"

OptionalMaps ==
  {"bufferViews", "nodes", "materials", "renderMaterials", "namedTextures", "patternSymbols"}

\* C6: of the scene's top-level maps only meshes is mandatory.  Without a meshes
\* object the call ends with InvalidTileData and no later stage starts; each of
\* bufferViews, nodes, materials, renderMaterials, namedTextures and patternSymbols
\* that is absent or no object is an empty map in the document, and the decoding goes
\* on to the feature table and the nodes and ends with a document.
C6_OnlyMeshesMandatory ==
  /\ pc \in {"featureTable", "nodes"} => imdlDoc.meshes.k = "obj"
  /\ (Done /\ SceneObjectParsed /\ sceneJson.meshes.k # "obj")
       => result = Status("InvalidTileData") /\ "ftBody" \notin readLog
  /\ (pc \in {"featureTable", "nodes", "done"} /\ C2_FollowingBytesValid)
       => \A f \in OptionalMaps : sceneJson[f].k # "obj" => imdlDoc[f] = EmptyMap
  /\ (Done /\ C2_FollowingBytesValid /\ ftHeaderOf(buffer).length % 4 = 0
           /\ \E f \in OptionalMaps : sceneJson[f].k # "obj")
       => /\ result.status = "Success"
          /\ \A f \in OptionalMaps : sceneJson[f].k # "obj" => result.json[f] = EmptyMap

C6_Witness ==
  /\ Done
  /\ result.status = "Success"
  /\ sceneJson.bufferViews.k = "wrong"
  /\ sceneJson.materials.k = "absent"
  /\ sceneJson.nodes.k = "obj"
  /\ result.json.bufferViews = EmptyMap
  /\ Len(result.nodes) = 1

NoRootEntry ==
  sceneJson.nodes.k = "obj" => \A i \in 1..Len(sceneJson.nodes.v) : sceneJson.nodes.v[i].key # Node_Root

\* C7: when the scene's nodes have no Node_Root entry, a tile that passes every stage
\* before the node traversal decodes to a document with an empty node list, whatever
\* other nodes and meshes the scene has.
C7_NoRootNode ==
  (Done /\ IsDef(featureTable) /\ NoRootEntry)
    => result.status = "Success" /\ result.nodes = <<>>

C7_Witness ==
  /\ Done
  /\ result.status = "Success"
  /\ result.nodes = <<>>
  /\ sceneJson.nodes.k = "obj"
  /\ Len(sceneJson.nodes.v) >= 2
  /\ NoRootEntry


\* a primitive free of the malformations the format tolerates: a material name that
\* resolves to an object, a vertex table with a non-empty buffer view and a decoding
\* range, and non-empty index or topology buffers
Resolves(bufferViewId) ==
  /\ sceneJson.bufferViews.k = "obj"
  /\ bufferViewId \in DOMAIN sceneJson.bufferViews.v
  /\ sceneJson.bufferViews.v[bufferViewId].byteLength # 0

WellFormed(p) ==
  /\ p.type \in {"mesh", "polyline", "point"}
  /\ p.material # ""
  /\ sceneJson.materials.k = "obj"
  /\ p.material \in DOMAIN sceneJson.materials.v
  /\ sceneJson.materials.v[p.material].k = "obj"
  /\ p.vertices.k = "obj"
  /\ Resolves(p.vertices.bufferView)
  /\ p.vertices.params = "ok"
  /\ p.type = "point" => Resolves(p.indices)
  /\ p.type = "polyline" =>
       Resolves(p.indices) /\ Resolves(p.prevIndices) /\ Resolves(p.nextIndicesAndParams)
  /\ p.type = "mesh" => p.surface.k = "obj" /\ Resolves(p.surface.indices) /\ p.surface.validType

RECURSIVE WellFormedOnes(_)
WellFormedOnes(ps) ==
  IF ps = <<>> THEN <<>>
  ELSE (IF WellFormed(Head(ps)) THEN <<Head(ps)>> ELSE <<>>) \o WellFormedOnes(Tail(ps))

Sources(primitives) == [i \in 1..Len(primitives) |-> primitives[i].from]

RootIsOnlyNode ==
  /\ sceneJson.nodes = Obj(RootOnly)
  /\ sceneJson.meshes.v["meshRoot"].primitives.k = "obj"
RootPrimitives == sceneJson.meshes.v["meshRoot"].primitives.v

\* C8 as stated: a malformed primitive is dropped and the parse goes on.  For a tile
\* that passes every stage before the node traversal, whose only node is the root and
\* which is decoded without a timeline, the call ends with a document whose one node
\* holds exactly the well-formed primitives of the root mesh, in their order.
C8_AsStated ==
  (Done /\ IsDef(featureTable) /\ options.timeline.k = "none" /\ RootIsOnlyNode)
    => /\ result.status = "Success"
       /\ Len(result.nodes) = 1
       /\ Sources(result.nodes[1].primitives) = WellFormedOnes(RootPrimitives)

\* the ids of the animation nodes a primitive's features belong to
NodeIdsOf(p) ==
  { IF f \in DOMAIN options.timeline.batchOf
       /\ options.timeline.batchOf[f] \in options.timeline.discreteBatchIds
    THEN options.timeline.batchOf[f] ELSE 0 : f \in p.features }

\* C9 as stated: with a timeline, every root primitive that parses, of every kind, is
\* in the output node of each animation-node id of its features, and no id has two
\* output nodes.
C9_AsStated ==
  (Done /\ result.status = "Success" /\ options.timeline.k # "none" /\ RootIsOnlyNode)
    => /\ \A i \in 1..Len(RootPrimitives) :
            IsDef(parsePrimitive(imdlDoc, RootPrimitives[i])) =>
              \A id \in NodeIdsOf(RootPrimitives[i]) :
                \E n \in 1..Len(result.nodes) :
                  /\ result.nodes[n].animationNodeId = Id(id)
                  /\ \E j \in 1..Len(result.nodes[n].primitives) :
                       result.nodes[n].primitives[j].from = RootPrimitives[i]
       /\ \A m, n \in 1..Len(result.nodes) :
            result.nodes[m].animationNodeId = result.nodes[n].animationNodeId => m = n

\* the rest of C9 without the mesh surfaces: every polyline and point string that
\* parses is in the node of each of its ids, and no id has two nodes
C9_PointsAndPolylinesKept ==
  (Done /\ result.status = "Success" /\ options.timeline.k # "none" /\ RootIsOnlyNode)
    => /\ \A i \in 1..Len(RootPrimitives) :
            (IsDef(parsePrimitive(imdlDoc, RootPrimitives[i])) /\ RootPrimitives[i].type # "mesh") =>
              \A id \in NodeIdsOf(RootPrimitives[i]) :
                \E n \in 1..Len(result.nodes) :
                  /\ result.nodes[n].animationNodeId = Id(id)
                  /\ \E j \in 1..Len(result.nodes[n].primitives) :
                       result.nodes[n].primitives[j].from = RootPrimitives[i]
       /\ \A m, n \in 1..Len(result.nodes) :
            result.nodes[m].animationNodeId = result.nodes[n].animationNodeId => m = n
       /\ \A n \in 1..Len(result.nodes) : \A j \in 1..Len(result.nodes[n].primitives) :
            result.nodes[n].primitives[j].type # "mesh"

\* what of C8 does hold: when every vertex table of the root mesh carries its
\* quantization parameters, the node holds exactly the well-formed primitives, in order
C8_WhenVertexTablesHaveParams ==
  (Done /\ IsDef(featureTable) /\ options.timeline.k = "none" /\ RootIsOnlyNode
        /\ \A i \in 1..Len(RootPrimitives) : RootPrimitives[i].vertices.params # "absent")
    => /\ result.status = "Success"
       /\ Len(result.nodes) = 1
       /\ Sources(result.nodes[1].primitives) = WellFormedOnes(RootPrimitives)

(***************************************************************************)
(* Properties of constructPolygonWireXYOffset.                             *)
(***************************************************************************)
OffsetDone == opc = "done"

\* the joints a chain is built with: one per point, the last point of a wrapped chain
\* sharing the joint of the first
NumJointsBuilt == IF wrap THEN Len(points) - 1 ELSE Len(points)

NoRepeatedPoint == \A i \in 1..(Len(points) - 1) : points[i] # points[i + 1]

IsInteriorJoint(J) == J.curve0 # NoCurve /\ J.curve1 # NoCurve

\* C10: with offset distance 0 the call returns the input polyline, open or closed
\* and without a repeated consecutive point, point for point; every joint between
\* two fragments is a Trim with fractions (1, 0), no joint carries a joint curve, and
\* no joint is removed or replaced.
C10_ZeroDistance ==
  (OffsetDone /\ jointOptions.leftOffsetDistance = 0 /\ NoRepeatedPoint)
    => /\ offsetResult.kind \in {"Loop", "Path"}
       /\ offsetResult.points = points
       /\ Len(joints) = NumJointsBuilt
       /\ removal.numRemoved = 0
       /\ \A j \in 1..Len(joints) :
            /\ joints[j].jointCurve = NoJointCurve
            /\ IsInteriorJoint(joints[j]) =>
                 /\ joints[j].flexure = "Trim"
                 /\ joints[j].fraction0 = One
                 /\ joints[j].fraction1 = Zero

\* a closed polyline of five points, wrapped, and an open one with two corners, both
\* offset by 0 and returned as they are
C10_Witness ==
  /\ OffsetDone
  /\ jointOptions.leftOffsetDistance = 0
  /\ Len(points) >= 4
  /\ offsetResult.points = points
  /\ \E j \in 1..Len(joints) : IsInteriorJoint(joints[j]) /\ joints[j].flexure = "Trim"
  /\ \/ wrap /\ offsetResult.kind = "Loop"
     \/ ~wrap /\ offsetResult.kind = "Path" /\ Len(points) = 4

\* ---------------------------------------------------------------------------------
\* Closed squares offset inward by more than half their side

\* the input is a closed square of side a, walked counter-clockwise (inward is left,
\* a positive distance) or clockwise (inward is right, a negative distance)
InwardSquare ==
  /\ wrap
  /\ \E a \in SquareSides :
       \/ points = Rectangle(a, a) /\ 2 * jointOptions.leftOffsetDistance > a
       \/ points = Rectangle(a, 0 - a) /\ 2 * (0 - jointOptions.leftOffsetDistance) > a

hasZeroLengthEdge(pts) == \E i \in 1..(Len(pts) - 1) : pts[i] = pts[i + 1]

\* a vertex met twice, other than the last point closing on the first
repeatsVertex(pts) ==
  \E i \in 1..Len(pts) : \E k \in (i + 1)..Len(pts) :
     pts[i] = pts[k] /\ ~(i = 1 /\ k = Len(pts))

EmittedFragmentsForward ==
  \A i \in 1..Len(trace.emitted) : FracLess(trace.emitted[i].fA, trace.emitted[i].fB)

\* C11 as stated: a closed square offset inward by more than half its side gives a
\* result without zero-length edge, made of fragments emitted between a start
\* fraction below their end fraction, that does not touch itself.
C11_AsStated ==
  (OffsetDone /\ InwardSquare)
    => /\ EmittedFragmentsForward
       /\ ~hasZeroLengthEdge(offsetResult.points)
       /\ ~repeatsVertex(offsetResult.points)

\* the part of C11 that holds: no fragment is emitted from a start fraction at or
\* above its end fraction, and no result has a zero-length edge
C11_FragmentsForward ==
  /\ EmittedFragmentsForward
  /\ OffsetDone => ~hasZeroLengthEdge(offsetResult.points)

\* ---------------------------------------------------------------------------------
\* Joint curves

\* the polyline turns back on itself at one of its points
hasReversal(pts) ==
  \E i \in 1..(Len(pts) - 2) :
     /\ pts[i] # pts[i + 1]
     /\ angleToXY(Minus(pts[i + 1], pts[i]), Minus(pts[i + 2], pts[i + 1])) = 180

\* the state right after annotateChain: every joint of the chain has been annotated
\* once and no pass of the degeneracy removal has begun
Annotated == opc = "passes" /\ pass = 0

\* the turn angle of the polyline at its i-th point, i not an end point
turnAt(pts, i) == angleToXY(Minus(pts[i], pts[i - 1]), Minus(pts[i + 1], pts[i]))

\* the offset passes outside the corner at the i-th point: a turn away from the
\* side of the offset, or a reversal
outsideTurn(pts, i, d) ==
  \/ turnAt(pts, i) = 90 /\ d < 0
  \/ turnAt(pts, i) = -90 /\ d > 0
  \/ turnAt(pts, i) = 180 /\ d # 0

\* the joint built for the i-th point is the i-th joint (657-663)
JointsAtPoints ==
  \A i \in 2..(Len(points) - 1) : i <= Len(joints) /\ joints[i].swingPoint = points[i]

\* the part of C12 that holds: with minArcDegrees 180 or more no joint is ever made an
\* arc, whatever the turns of the polyline, reversals included; an Extend joint carries
\* a sharp corner or a chamfer line string and a Gap joint a segment.
C12_NoArcByDefault ==
  jointOptions.minArcDegrees >= 180
    => \A j \in 1..Len(joints) :
         /\ joints[j].jointCurve.kind # "arc"
         /\ joints[j].flexure = "Extend" => joints[j].jointCurve.kind \in {"linestring", "chamfer"}
         /\ joints[j].flexure = "Gap" => joints[j].jointCurve.kind = "segment"

\* C12 as stated: with minArcDegrees 180 or more no joint is an arc, and the joint of
\* every outside turn, from 90 degrees to a reversal of 180, carries a sharp corner, a
\* chamfer line string or a gap segment.
C12_AsStated ==
  (Annotated /\ jointOptions.minArcDegrees >= 180 /\ NoRepeatedPoint)
    => /\ JointsAtPoints
       /\ \A i \in 2..(Len(points) - 1) :
            /\ joints[i].jointCurve.kind # "arc"
            /\ outsideTurn(points, i, jointOptions.leftOffsetDistance)
                 => joints[i].jointCurve.kind \in {"linestring", "chamfer", "segment"}

\* the same for the outside turns of 90 degrees alone
C12_RightAngles ==
  (Annotated /\ jointOptions.minArcDegrees >= 180 /\ NoRepeatedPoint)
    => /\ JointsAtPoints
       /\ \A i \in 2..(Len(points) - 1) :
            (outsideTurn(points, i, jointOptions.leftOffsetDistance) /\ turnAt(points, i) # 180)
               => joints[i].jointCurve.kind \in {"linestring", "chamfer"}


\* the point where the support lines of two perpendicular axis-parallel fragments meet
supportLinesMeet(c0, c1) ==
  IF c0.point0[2] = c0.point1[2]
  THEN <<c1.point0[1], c0.point1[2]>>
  ELSE <<c0.point1[1], c1.point0[2]>>

DefaultOptions ==
  /\ jointOptions.minArcDegrees = 180
  /\ jointOptions.maxChamferTurnDegrees = 90
  /\ ~jointOptions.allowSharpestCorners

OutsideRightAngle(i) ==
  /\ outsideTurn(points, i, jointOptions.leftOffsetDistance)
  /\ turnAt(points, i) # 180

\* C13: with the default options the joint at an outside corner of 90 degrees is an
\* Extend joint with fractions (1, 0) whose joint curve is the line string of the end
\* of fragment 0, the meeting point of the two support lines and the start of
\* fragment 1, and nothing else.
C13_SharpCorner ==
  (Annotated /\ DefaultOptions /\ NoRepeatedPoint)
    => \A i \in 2..(Len(points) - 1) :
         OutsideRightAngle(i)
           => /\ joints[i].flexure = "Extend"
              /\ joints[i].fraction0 = One /\ joints[i].fraction1 = Zero
              /\ joints[i].jointCurve.kind = "linestring"
              /\ joints[i].jointCurve.pts =
                   << fragments[joints[i].curve0].point1,
                      supportLinesMeet(fragments[joints[i].curve0], fragments[joints[i].curve1]),
                      fragments[joints[i].curve1].point0 >>
              /\ joints[i].jointCurve.pts[2] =
                   Plus(points[i],
                        Plus(Minus(fragments[joints[i].curve0].point1, points[i]),
                             Minus(fragments[joints[i].curve1].point0, points[i])))

\* a corner of 90 degrees with the offset on its outside, annotated with the default
\* options, and the call finished with the corner point in its result
C13_Witness ==
  /\ OffsetDone /\ DefaultOptions /\ NoRepeatedPoint
  /\ \E i \in 2..(Len(points) - 1) :
       /\ OutsideRightAngle(i)
       /\ joints[i].flexure = "Extend"
       /\ Len(joints[i].jointCurve.pts) = 3
       /\ \E k \in 1..Len(offsetResult.points) :
            offsetResult.points[k] = joints[i].jointCurve.pts[2]


\* ---------------------------------------------------------------------------------
\* The chamfer point count

\* the step of the chamfer as the specification gives it: maxChamferTurnDegrees held
\* between 10 and the cap, the cap being maxChamferTurnDegrees itself when
\* allowSharpestCorners is set and 120 otherwise
stepDegreesOf(opts) ==
  IF opts.maxChamferTurnDegrees < 10 THEN 10
  ELSE IF ~opts.allowSharpestCorners /\ opts.maxChamferTurnDegrees > 120 THEN 120
  ELSE opts.maxChamferTurnDegrees

\* n is the ceiling of a / b, for b > 0
isCeiling(n, a, b) == n * b >= a /\ (n - 1) * b < a

ChamferComputed == opc = "chamfer" /\ chamfer.count # NotComputed

\* C14 as stated: numChamferPoints is the ceiling of |theta| / stepDegrees for every
\* turn angle from 0 to 180 degrees and every maxChamferTurnDegrees.
C14_AsStated ==
  ChamferComputed
    => isCeiling(chamfer.count, Abs(chamfer.theta), stepDegreesOf(jointOptions))

\* C14: numChamferPoints is the ceiling of |theta| / stepDegrees for every turn angle
\* other than 0, of either sign, up to 180 degrees and every maxChamferTurnDegrees,
\* also below 10 and above 120; for a turn angle of 0 it is 1, not 0.
C14_Amended ==
  ChamferComputed
    => IF chamfer.theta = 0
       THEN chamfer.count = 1
       ELSE isCeiling(chamfer.count, Abs(chamfer.theta), stepDegreesOf(jointOptions))

\* counts above 1 computed with a maxChamferTurnDegrees below 10 and with one above 120
\* that allowSharpestCorners lets through
C14_Witness ==
  /\ ChamferComputed
  /\ chamfer.count > 1
  /\ \/ jointOptions.maxChamferTurnDegrees < 10
     \/ jointOptions.maxChamferTurnDegrees > 120 /\ jointOptions.allowSharpestCorners


\* ---------------------------------------------------------------------------------
\* The kind of the result

\* C15: the call returns the emitted points as a Loop when they are two or more and
\* the first equals the last, as a Path when they are two or more and the first
\* differs from the last, and undefined when fewer than two points were emitted.
C15_LoopPathOrUndefined ==
  OffsetDone
    => /\ offsetResult.kind \in {"Loop", "Path", "undefined"}
       /\ offsetResult.kind = "Loop"
            <=> (Len(chain) >= 2 /\ isAlmostEqual(chain[1], chain[Len(chain)]))
       /\ offsetResult.kind = "Path"
            <=> (Len(chain) >= 2 /\ ~isAlmostEqual(chain[1], chain[Len(chain)]))
       /\ offsetResult.kind = "undefined" <=> Len(chain) < 2
       /\ offsetResult.kind # "undefined" => offsetResult.points = chain

\* a closed polyline offset by a distance other than 0 and returned as a Loop of at
\* least four points
C15_Witness ==
  /\ OffsetDone
  /\ jointOptions.leftOffsetDistance # 0
  /\ offsetResult.kind = "Loop"
  /\ Len(offsetResult.points) >= 4
  /\ offsetResult.points[1] = offsetResult.points[Len(offsetResult.points)]

C15_SomePath == OffsetDone /\ offsetResult.kind = "Path" /\ jointOptions.leftOffsetDistance # 0
C15_SomeUndefined == OffsetDone /\ offsetResult.kind = "undefined" /\ Len(chain) = 0


\* ---------------------------------------------------------------------------------
\* Termination

\* the callbacks of each walk, the iterations of each pass and the passes stay within
\* their limits, written with the number of input points (maxTest at 671, 674, 688)
WithinLimits ==
  /\ trace.annotated <= Len(points) + 5
  /\ trace.collected <= Len(points) + 5
  /\ walk.numTest <= Len(points) + 5
  /\ removal.numTest <= Len(points)
  /\ \A i \in 1..Len(trace.passes) : trace.passes[i].iterations <= Len(points)
  /\ Len(trace.passes) <= 5
  /\ pass <= 6

\* C16: every call ends, each walk of the chain having made at most maxTest + 5
\* callbacks, each removal pass at most maxTest iterations, and at most 5 passes
\* having run, on open and circular chains and when the start joint has been cut out.
C16_Terminates == []WithinLimits /\ <>OffsetDone

\* a call on a closed chain whose start joint was left off the cycle by the removal:
\* the pass ran its maxTest iterations and the collecting walk was ended by its limit
\* of maxTest + 5 callbacks, never coming back to the start joint
C16_Witness ==
  /\ OffsetDone
  /\ wrap
  /\ trace.collected = Len(points) + 5
  /\ \E i \in 1..Len(trace.passes) : trace.passes[i].iterations = Len(points)
  /\ \A j \in 1..Len(joints) : joints[j].nextJoint # joint0


\* ---------------------------------------------------------------------------------
\* Joint modes

\* the joints of the chain as built: one per point, the last point of a wrapped chain
\* sharing the joint of the first
ChainJoints == 1..NumJointsBuilt

\* the rays annotateJointMode intersects (480-482) for a joint between two fragments
raysMeet(J) ==
  closestApproachRay3dRay3d(fractionToPointAndDerivative(fragments[J.curve0], Zero),
                            fractionToPointAndDerivative(fragments[J.curve1], Zero))

\* C17 as stated: once the chain is annotated every joint has one of the modes Cap,
\* Extend, Trim and Gap and none is Unknown, whatever the fragments at the joint.
C17_AsStated ==
  (Annotated /\ NoRepeatedPoint)
    => \A j \in ChainJoints : joints[j].flexure \in {"Cap", "Extend", "Trim", "Gap"}

\* the part of C17 that holds: a joint is left Unknown only between two fragments that
\* do not meet and whose lines are parallel, or meet at fractions that none of the
\* tests at 486, 488 and 490 covers
C17_UnknownOnlyUncovered ==
  (Annotated /\ NoRepeatedPoint)
    => \A j \in ChainJoints :
         /\ joints[j].flexure \in {"Unknown", "Cap", "Extend", "Trim", "Gap"}
         /\ joints[j].flexure = "Unknown"
              => /\ IsInteriorJoint(joints[j])
                 /\ ~fragmentsMeet(fragments[joints[j].curve0], fragments[joints[j].curve1])
                 /\ \/ raysMeet(joints[j]).approachType = "Parallel"
                    \/ /\ raysMeet(joints[j]).approachType = "Intersection"
                       /\ ~(FracLeq(One, joints[j].fraction0) /\ FracLeq(joints[j].fraction1, Zero))
                       /\ ~(FracLess(joints[j].fraction0, One) /\ FracLess(Zero, joints[j].fraction1))
                       /\ ~(FracLess(One, joints[j].fraction0) /\ FracLess(One, joints[j].fraction1))


\* the one joint of SpecJoint after annotateJointMode, between two fragments whose
\* lines meet, and the fractions at which they meet
ModeAnnotated == opc = "jointMode" /\ raysMeet(joints[1]).approachType = "Intersection"
f0 == raysMeet(joints[1]).fractionA
f1 == raysMeet(joints[1]).fractionB
within01(f) == FracLeq(Zero, f) /\ FracLeq(f, One)
gapSegment == JointCurve("segment", <<fragments[1].point1, fragments[2].point0>>, 0)

\* C18 as stated: fractions both within [0, 1] give a Trim at (f0, f1); fractions
\* both beyond the end give a Gap with the segment from the end of fragment 0 to the
\* start of fragment 1 and fractions (1, 0); f0 >= 1 with f1 <= 0, other than (1, 0),
\* gives an Extend.
C18_AsStated ==
  ModeAnnotated
    => /\ (within01(f0) /\ within01(f1))
            => /\ joints[1].flexure = "Trim"
               /\ joints[1].fraction0 = f0 /\ joints[1].fraction1 = f1
       /\ (FracLess(One, f0) /\ FracLess(One, f1))
            => /\ joints[1].flexure = "Gap"
               /\ joints[1].jointCurve = gapSegment
               /\ joints[1].fraction0 = One /\ joints[1].fraction1 = Zero
       /\ (FracLeq(One, f0) /\ FracLeq(f1, Zero) /\ ~(f0 = One /\ f1 = Zero))
            => joints[1].flexure = "Extend"

\* what holds in place of C18: the joint is a Trim at (f0, f1) when f0 < 1 and f1 > 0,
\* also outside [0, 1], and a Trim at (1, 0) when the fragments meet; a Gap when both
\* fractions are above 1; an Extend, or the Gap of a chamfer without arc, when
\* f0 >= 1 and f1 <= 0; and it is left Unknown, with fractions (f0, f1) and no joint
\* curve, in every other case.
C18_Tests ==
  ModeAnnotated
    => IF fragmentsMeet(fragments[1], fragments[2])
       THEN joints[1].flexure = "Trim" /\ joints[1].fraction0 = One /\ joints[1].fraction1 = Zero
       ELSE IF FracLeq(One, f0) /\ FracLeq(f1, Zero)
       THEN /\ joints[1].flexure \in {"Extend", "Gap"}
            /\ joints[1].fraction0 = One /\ joints[1].fraction1 = Zero
            /\ joints[1].flexure = "Gap" => joints[1].jointCurve = gapSegment
       ELSE IF FracLess(f0, One) /\ FracLess(Zero, f1)
       THEN /\ joints[1].flexure = "Trim"
            /\ joints[1].fraction0 = f0 /\ joints[1].fraction1 = f1
            /\ joints[1].jointCurve = NoJointCurve
       ELSE IF FracLess(One, f0) /\ FracLess(One, f1)
       THEN /\ joints[1].flexure = "Gap"
            /\ joints[1].jointCurve = gapSegment
            /\ joints[1].fraction0 = One /\ joints[1].fraction1 = Zero
       ELSE /\ joints[1].flexure = "Unknown"
            /\ joints[1].fraction0 = f0 /\ joints[1].fraction1 = f1
            /\ joints[1].jointCurve = NoJointCurve

C18_SomeGap == ModeAnnotated /\ FracLess(One, f0) /\ FracLess(One, f1) /\ joints[1].flexure = "Gap"
C18_SomeTrimOutside ==
  ModeAnnotated /\ joints[1].flexure = "Trim" /\ ~within01(f0) /\ ~within01(f1)
C18_SomeUnknownBeyond ==
  ModeAnnotated /\ joints[1].flexure = "Unknown" /\ FracLess(One, f0) /\ within01(f1)

\* the same failure inside an offset call: a joint made by the degeneracy removal whose
\* fragments meet at fractions within [0, 1] and that is left Unknown
C18_UnknownInOffsetCall ==
  /\ opc = "done" /\ NoRepeatedPoint
  /\ \E j \in 1..Len(joints) :
       /\ IsInteriorJoint(joints[j]) /\ joints[j].curve0 # joints[j].curve1
       /\ raysMeet(joints[j]).approachType = "Intersection"
       /\ within01(raysMeet(joints[j]).fractionA) /\ within01(raysMeet(joints[j]).fractionB)
       /\ joints[j].flexure = "Unknown"


\* ---------------------------------------------------------------------------------
\* The construction at an extended joint

\* the one joint of SpecJoint after annotateExtension, the tangent rays at the end of
\* fragment 0 and at the start of fragment 1, where they meet, and the turn angle
ExtensionAnnotated == opc = "extension"
endRay0 == fractionToPointAndDerivative(fragments[1], One)
startRay1 == fractionToPointAndDerivative(fragments[2], Zero)
tangentsMeet == closestApproachRay3dRay3d(endRay0, startRay1)
validIntersection ==
  /\ tangentsMeet.approachType = "Intersection"
  /\ FracLeq(Zero, tangentsMeet.fractionA)
  /\ FracLeq(tangentsMeet.fractionB, Zero)
turnAngle == angleToXY(endRay0.direction, startRay1.direction)
chamferPoints == numChamferPoints(jointOptions, turnAngle)

\* an arc about the end of the base segment of fragment 0 goes through the end of
\* fragment 0 and the start of fragment 1 (239)
arcFits ==
  Dot(Minus(fragments[1].point1, fragments[1].baseCurveEnd),
      Minus(fragments[1].point1, fragments[1].baseCurveEnd))
    = Dot(Minus(fragments[2].point0, fragments[1].baseCurveEnd),
          Minus(fragments[2].point0, fragments[1].baseCurveEnd))

isExtend(J) == J.flexure = "Extend" /\ J.fraction0 = One /\ J.fraction1 = Zero
isGap(J) ==
  /\ J.flexure = "Gap" /\ J.fraction0 = One /\ J.fraction1 = Zero
  /\ J.jointCurve = gapSegment
isSharpCorner(J) ==
  /\ isExtend(J)
  /\ J.jointCurve.kind = "linestring"
  /\ J.jointCurve.pts = <<fragments[1].point1, tangentsMeet.point, fragments[2].point0>>
isChamfer(J, n) ==
  /\ isExtend(J)
  /\ J.jointCurve.kind = "chamfer"
  /\ J.jointCurve.pts = <<fragments[1].point1, fragments[2].point0>>
  /\ J.jointCurve.numInterior = n
isArc(J) == isExtend(J) /\ J.jointCurve.kind = "arc"

\* C19 as stated: with a valid intersection of the tangent rays the joint is an Extend
\* with an arc when the turn angle is at least minArcDegrees, else with a sharp corner
\* of 3 points when numChamferPoints <= 1, else with a chamfer of numChamferPoints
\* interior points; without a valid intersection it is a Gap with the segment between
\* the fragment ends and fractions (1, 0).
C19_AsStated ==
  ExtensionAnnotated
    => IF ~validIntersection THEN isGap(joints[1])
       ELSE IF Abs(turnAngle) >= jointOptions.minArcDegrees THEN isArc(joints[1])
       ELSE IF chamferPoints <= 1 THEN isSharpCorner(joints[1])
       ELSE isChamfer(joints[1], chamferPoints)

\* C19: the same order of constructions, the arc and the chamfer being made only when
\* an arc about the base end point of fragment 0 goes through both fragment ends: a
\* turn of minArcDegrees or more whose arc does not fit goes on to the sharp corner or
\* the chamfer, and a chamfer whose arc does not fit becomes a Gap like a joint
\* without valid intersection.
C19_Amended ==
  ExtensionAnnotated
    => IF ~validIntersection THEN isGap(joints[1])
       ELSE IF Abs(turnAngle) >= jointOptions.minArcDegrees /\ arcFits THEN isArc(joints[1])
       ELSE IF chamferPoints <= 1 THEN isSharpCorner(joints[1])
       ELSE IF arcFits THEN isChamfer(joints[1], chamferPoints)
       ELSE isGap(joints[1])

\* a turn of 90 degrees made a chamfer of three interior points, five points in all
C19_Witness ==
  /\ ExtensionAnnotated /\ validIntersection /\ arcFits
  /\ Abs(turnAngle) = 90 /\ jointOptions.minArcDegrees = 180
  /\ chamferPoints = 3
  /\ isChamfer(joints[1], 3)

C19_SomeArc == ExtensionAnnotated /\ validIntersection /\ isArc(joints[1])
C19_SomeSharpCorner == ExtensionAnnotated /\ validIntersection /\ isSharpCorner(joints[1])
C19_SomeGapWithoutIntersection == ExtensionAnnotated /\ ~validIntersection /\ isGap(joints[1])
C19_SomeGapWithoutArc ==
  ExtensionAnnotated /\ validIntersection /\ ~arcFits /\ chamferPoints > 1 /\ isGap(joints[1])
C19_SomeCornerInsteadOfArc ==
  /\ ExtensionAnnotated /\ validIntersection /\ ~arcFits
  /\ Abs(turnAngle) >= jointOptions.minArcDegrees
  /\ isSharpCorner(joints[1])

\* inside an offset call: a joint made by the degeneracy removal that turns by
\* minArcDegrees or more and is a sharp corner
C19_CornerInsteadOfArcInOffsetCall ==
  /\ opc = "done" /\ NoRepeatedPoint
  /\ \E j \in 1..Len(joints) :
       /\ joints[j].flexure = "Extend"
       /\ joints[j].jointCurve.kind = "linestring"
       /\ jointOptions.minArcDegrees <= 90


\* at the corners of the offset polyline itself the order of C19 holds as stated
C19_AtPolylineCorners ==
  (Annotated /\ NoRepeatedPoint)
    => \A i \in 2..(Len(points) - 1) :
         OutsideRightAngle(i)
           => /\ joints[i].flexure = "Extend"
              /\ joints[i].jointCurve.kind =
                   IF 90 >= jointOptions.minArcDegrees THEN "arc"
                   ELSE IF numChamferPoints(jointOptions, 90) <= 1 THEN "linestring"
                   ELSE "chamfer"
              /\ joints[i].jointCurve.kind = "chamfer"
                   => joints[i].jointCurve.numInterior = numChamferPoints(jointOptions, 90)


\* ---------------------------------------------------------------------------------
\* The passes of the degeneracy removal

\* trace.passes has one record per finished pass: the numJointRemoved the pass
\* returned, the joints it spliced in (one per splice, each replacing the two or three
\* joints around a vanished fragment), and its loop iterations

\* C20 as stated: at most 5 passes run, each pass splices at most once, a pass that was
\* followed by another one spliced, and unless 5 passes ran the last one spliced nothing.
C20_AsStated ==
  /\ Len(trace.passes) <= 5
  /\ \A i \in 1..Len(trace.passes) :
       /\ trace.passes[i].cuts <= 1
       /\ i < Len(trace.passes) => trace.passes[i].cuts = 1
  /\ (OffsetDone /\ Len(trace.passes) < 5) => trace.passes[Len(trace.passes)].cuts = 0

\* the part of C20 that holds, in terms of the count the pass returns: at most 5 passes
\* run, numJointRemoved is 0 or 1, every pass followed by another one returned 1, and
\* unless 5 passes ran the last one returned 0; a pass that returned 1 spliced once or
\* more, the counted splice being its last
C20_CountedRemovals ==
  /\ Len(trace.passes) <= 5
  /\ \A i \in 1..Len(trace.passes) :
       /\ trace.passes[i].numJointRemoved \in {0, 1}
       /\ trace.passes[i].numJointRemoved <= trace.passes[i].cuts
       /\ i < Len(trace.passes) => trace.passes[i].numJointRemoved = 1
  /\ (OffsetDone /\ Len(trace.passes) < 5)
       => trace.passes[Len(trace.passes)].numJointRemoved = 0

C20_SomeSecondPass == OffsetDone /\ Len(trace.passes) >= 2
C20_SomeThirdPass == OffsetDone /\ Len(trace.passes) >= 3
C20_SomeUncountedSplices ==
  /\ OffsetDone
  /\ \E i \in 1..Len(trace.passes) :
       trace.passes[i].numJointRemoved = 0 /\ trace.passes[i].cuts >= 2


\* ---------------------------------------------------------------------------------
\* One splice of the degeneracy removal

\* the joints jointA, jointB and jointC of the running iteration (529, 553)
jointA == removal.jointA
jointB == joints[jointA].nextJoint
jointC == joints[jointB].nextJoint

\* 530-536: the iteration looks at the fractions
fractionsTested ==
  /\ removalContinues
  /\ jointB # 0
  /\ joints[jointA].previousJoint # 0
  /\ jointC # 0
  /\ IsFraction(joints[jointA].fraction1)
  /\ IsFraction(joints[jointB].fraction0)

\* the fragment between jointA and jointB has collapsed: A.fraction1 >= B.fraction0
collapseDetected ==
  fractionsTested /\ FracLeq(joints[jointB].fraction0, joints[jointA].fraction1)

\* the fragment after jointB goes too (551)
secondCollapse ==
  eliminateG(joints[jointB].fraction1, joints[jointC].fraction0)

\* the last joint the splice removes, and the joints the new joint is linked between
lastRemoved == IF secondCollapse THEN jointC ELSE jointB
spliceBefore == joints[jointA].previousJoint
spliceAfter == joints[lastRemoved].nextJoint
newJointId == Len(joints) + 1

\* the annotation of a joint: flexure, fractions and joint curve
annotation(J) == <<J.flexure, J.fraction0, J.fraction1, J.jointCurve>>

\* C21: when the iteration finds A.fraction1 >= B.fraction0, one new joint is made whose
\* curve0 is A.curve0 and whose curve1 is the curve1 of the last joint removed, linked
\* between A's previous joint and the joint after the removed ones (none, and no
\* curve1, when the trailing joint of an open chain is removed); the new joint and
\* its neighbours carry the annotation annotateJointMode gives them, and the
\* annotation of every other joint is as before.
C21_Splice ==
  [][ collapseDetected =>
        /\ Len(joints') = Len(joints) + 1
        /\ joints'[newJointId].curve0 = joints[jointA].curve0
        /\ joints'[newJointId].curve1 = joints[lastRemoved].curve1
        /\ joints'[spliceBefore].nextJoint = newJointId
        /\ joints'[newJointId].previousJoint = spliceBefore
        /\ joints'[newJointId].nextJoint = spliceAfter
        /\ spliceAfter # 0 => joints'[spliceAfter].previousJoint = newJointId
        /\ joints'[newJointId] =
             annotateJointMode([Joint(joints[jointA].curve0, joints[lastRemoved].curve1, NoPoint)
                                  EXCEPT !.previousJoint = spliceBefore,
                                         !.nextJoint = spliceAfter],
                               fragments, jointOptions)
        /\ \A j \in {spliceBefore, spliceAfter} \ {0} :
             joints'[j] = annotateJointMode(joints'[j], fragments, jointOptions)
        /\ \A j \in 1..Len(joints) :
             j \notin {spliceBefore, spliceAfter}
               => annotation(joints'[j]) = annotation(joints[j])
    ]_vars

\* C21 witnesses: a pass has spliced once, taking out one fragment; and it has taken
\* out two fragments at once, leaving three joints unreachable
C21_Witness ==
  /\ opc = "remove"
  /\ trace.cutsInPass = 1
  /\ removal.numRemoved = 1
  /\ joints[Len(joints)].curve0 # NoCurve
  /\ joints[Len(joints)].curve1 # NoCurve
C21_SomeDoubleCut ==
  /\ opc = "remove"
  /\ trace.cutsInPass = 1
  /\ removal.numRemoved = 0


\* ---------------------------------------------------------------------------------
\* The shape of the chain each entry point builds

\* the chain as constructPolygonWireXYOffset left it at 669, as constructCurveXYOffset
\* left it at 797
PolygonChainBuilt == opc = "annotate" /\ walk.numTest = 0
CurveChainBuilt == opc = "curveBuilt"

\* the joint reached from joint j by n nextJoint links, 0 once the chain has ended
RECURSIVE jointAfter(_, _)
jointAfter(j, n) ==
  IF n = 0 \/ j = 0 THEN j ELSE jointAfter(joints[j].nextJoint, n - 1)

\* an open chain of n joints from joint 1: a leading joint without curve0, then joints
\* with both curves, the last one without nextJoint
openChainOf(n) ==
  /\ Len(joints) = n
  /\ joints[1].curve0 = NoCurve /\ joints[1].curve1 # NoCurve
  /\ \A i \in 2..(n - 1) : IsInteriorJoint(joints[i])
  /\ \A i \in 1..(n - 1) : jointAfter(1, i) = i + 1
  /\ joints[n].nextJoint = 0

\* the last joint of an open chain is a trailing joint without curve1
hasTrailingJoint ==
  joints[Len(joints)].curve0 # NoCurve /\ joints[Len(joints)].curve1 = NoCurve

\* a closed chain of n joints: the links return to joint 1 after exactly n steps, and
\* every joint, the wrap-around joint 1 included, has both curves
closedChainOf(n) ==
  /\ Len(joints) = n
  /\ jointAfter(1, n) = 1
  /\ \A i \in 1..(n - 1) : jointAfter(1, i) # 1
  /\ \A i \in 1..n : IsInteriorJoint(joints[i])

\* C22 as stated: for k fragments either entry point builds k + 1 joints for an open
\* chain, the last a trailing joint without curve1, and a cycle of k joints for a
\* closed chain.
C22_AsStated ==
  ((PolygonChainBuilt /\ NoRepeatedPoint) \/ (CurveChainBuilt /\ Len(fragments) >= 1))
    => IF wrap
       THEN closedChainOf(Len(fragments))
       ELSE openChainOf(Len(fragments) + 1) /\ hasTrailingJoint

\* C22 amended: constructPolygonWireXYOffset builds k + 1 joints for an open chain, the
\* last a trailing joint without curve1; constructCurveXYOffset builds k joints, the
\* last holding the last fragment as its curve1, and no trailing joint; for a closed
\* chain both build a cycle of k joints.
C22_Amended ==
  /\ (PolygonChainBuilt /\ NoRepeatedPoint)
       => IF wrap
          THEN closedChainOf(Len(fragments))
          ELSE openChainOf(Len(fragments) + 1) /\ hasTrailingJoint
  /\ (CurveChainBuilt /\ Len(fragments) >= 1)
       => IF wrap
          THEN closedChainOf(Len(fragments))
          ELSE /\ openChainOf(Len(fragments))
               /\ joints[Len(joints)].curve1 = Len(fragments)
  /\ (CurveChainBuilt /\ Len(fragments) = 0) => joints = <<>> /\ joint0 = 0

\* C22 witnesses: an open curve chain of three fragments, and a closed one of four
C22_Witness == CurveChainBuilt /\ ~wrap /\ Len(fragments) = 3 /\ Len(joints) = 3
C22_SomeClosedCurveChain == CurveChainBuilt /\ wrap /\ Len(fragments) = 4
C22_SomeOpenPolygonChain == PolygonChainBuilt /\ ~wrap /\ Len(fragments) = 3 /\ Len(joints) = 4
C22_SomeClosedPolygonChain == PolygonChainBuilt /\ wrap /\ Len(fragments) = 4


\* ---------------------------------------------------------------------------------
\* The trim point of a joint between curves

CurveJointAnnotated == opc = "curveJointMode"

\* the summed distance of a candidate's fractions from the pass-through point (1, 0)
distanceFromPassThrough(c) == summedDifference(c, One, Zero)

\* the candidates no other candidate is closer than
closestCandidates ==
  { i \in 1..Len(intersections) :
      \A k \in 1..Len(intersections) :
        FracLeq(distanceFromPassThrough(intersections[i]),
                distanceFromPassThrough(intersections[k])) }

\* the candidate the code selects in a list, <<>> in an empty one
selectedIn(cs) ==
  IF selectIntersectionIndexByFraction(One, Zero, cs) >= 0
  THEN <<cs[selectIntersectionIndexByFraction(One, Zero, cs) + 1]>>
  ELSE <<>>

\* the candidates listed in another order
reordered(p) == [i \in 1..Len(intersections) |-> intersections[p[i]]]

\* C23: at a joint between fragments of which one is no line segment, the joint is Trim
\* at the fractions of a candidate that minimises |fractionA - 1| + |fractionB - 0| over
\* all candidates; when one candidate alone attains the minimum, the same candidate is
\* selected in whatever order the candidates are listed; without a candidate the joint
\* is what the extension construction makes of it.
C23_ClosestCandidate ==
  CurveJointAnnotated =>
    /\ intersections # <<>> =>
         /\ joints[1].flexure = "Trim"
         /\ \E i \in closestCandidates :
              /\ joints[1].fraction0 = intersections[i].fractionA
              /\ joints[1].fraction1 = intersections[i].fractionB
         /\ joints[1].jointCurve = NoJointCurve
         /\ Cardinality({ intersections[i] : i \in closestCandidates }) = 1
              => \A p \in Permutations(1..Len(intersections)) :
                   selectedIn(reordered(p)) = selectedIn(intersections)
    /\ intersections = <<>> =>
         joints[1] = annotateExtension(Joint(1, 2, NoPoint), fragments, jointOptions)

\* C23 witnesses: the closest of three candidates is listed last; two candidates are
\* equally close, and the one listed first is taken; no candidate, and an extension
C23_Witness ==
  /\ CurveJointAnnotated
  /\ Len(intersections) = 3
  /\ closestCandidates = {3}
  /\ joints[1].flexure = "Trim"
  /\ joints[1].fraction0 = intersections[3].fractionA
  /\ joints[1].fraction1 = intersections[3].fractionB
C23_SomeTie ==
  /\ CurveJointAnnotated
  /\ Len(intersections) = 2
  /\ closestCandidates = {1, 2}
  /\ intersections[1] # intersections[2]
  /\ joints[1].fraction0 = intersections[1].fractionA
  /\ joints[1].fraction1 = intersections[1].fractionB
C23_SomeExtension ==
  /\ CurveJointAnnotated
  /\ intersections = <<>>
  /\ joints[1].flexure = "Extend"


\* ---------------------------------------------------------------------------------
\* The nodes of the document

Decoded == Done /\ result.status = "Success"

\* the entries of the scene's nodes object, in key order, and the primitives of an entry
docNodes == imdlDoc.nodes
hasPrimitives(e) ==
  /\ e.mesh \in DOMAIN imdlDoc.meshes.v
  /\ imdlDoc.meshes.v[e.mesh].primitives.k = "obj"
docPrimitivesOf(e) == imdlDoc.meshes.v[e.mesh].primitives.v

\* the Node_Root entry and the output nodes made for it: the nodes after those of the
\* entries before it and before those of the entries after it, each of which gives one
\* node when it has primitives
rootIndex == CHOOSE i \in 1..Len(docNodes) : docNodes[i].key = Node_Root
nodesBeforeRoot ==
  Cardinality({ i \in 1..(rootIndex - 1) : hasPrimitives(docNodes[i]) })
nodesAfterRoot ==
  Cardinality({ i \in (rootIndex + 1)..Len(docNodes) : hasPrimitives(docNodes[i]) })
rootNodes == SubSeq(result.nodes, nodesBeforeRoot + 1, Len(result.nodes) - nodesAfterRoot)
RootExpanded == Decoded /\ hasNodeRoot(docNodes) /\ hasPrimitives(docNodes[rootIndex])

\* C24: a root node with primitives is expanded in one of three ways: with a timeline,
\* into animation nodes only, one per id; otherwise with createUntransformedRootNode,
\* into one node with the id Untransformed that holds all parsed root primitives;
\* otherwise into one node without animationNodeId and without layerId that holds them.
C24_RootExpansion ==
  RootExpanded =>
    IF options.timeline.k # "none"
    THEN /\ \A n \in 1..Len(rootNodes) :
              /\ rootNodes[n].animationNodeId.k = "id"
              /\ rootNodes[n].animationNodeId.v # AnimationNodeId_Untransformed
              /\ rootNodes[n].layerId = NoId
         /\ \A m, n \in 1..Len(rootNodes) :
              rootNodes[m].animationNodeId = rootNodes[n].animationNodeId => m = n
    ELSE /\ Len(rootNodes) = 1
         /\ rootNodes[1].animationNodeId =
              IF options.createUntransformedRootNode THEN Id(AnimationNodeId_Untransformed)
              ELSE NoId
         /\ rootNodes[1].layerId = NoId
         /\ rootNodes[1].primitives = parsePrimitives(imdlDoc, docPrimitivesOf(docNodes[rootIndex])).v

\* C24 witnesses: the untransformed node of a root between two other nodes; a root
\* split in two under a timeline that also asks for the untransformed node; the plain
\* node of a root whose mesh has a layer
C24_Witness ==
  /\ RootExpanded
  /\ options.timeline.k = "none"
  /\ options.createUntransformedRootNode
  /\ nodesBeforeRoot = 1 /\ nodesAfterRoot = 1
  /\ rootNodes[1].animationNodeId = Id(AnimationNodeId_Untransformed)
  /\ Len(rootNodes[1].primitives) >= 1
C24_SomeSplitRoot ==
  /\ RootExpanded
  /\ options.timeline.k # "none"
  /\ options.createUntransformedRootNode
  /\ Len(rootNodes) = 2
C24_SomePlainRootWithLayer ==
  /\ RootExpanded
  /\ options.timeline.k = "none"
  /\ ~options.createUntransformedRootNode
  /\ imdlDoc.meshes.v[docNodes[rootIndex].mesh].layer.k = "obj"
  /\ rootNodes[1].layerId = NoId


\* the same call in a build without assertions ends with a document
DecodesWithoutAssertions ==
  parseImdlDocument([Input EXCEPT !.options.asserts = FALSE]).result.status = "Success"

\* the entries that have primitives, in key order
RECURSIVE entriesWithPrimitivesFrom(_)
entriesWithPrimitivesFrom(i) ==
  IF i > Len(docNodes) THEN <<>>
  ELSE (IF hasPrimitives(docNodes[i]) THEN <<docNodes[i]>> ELSE <<>>)
       \o entriesWithPrimitivesFrom(i + 1)
entriesWithPrimitives == entriesWithPrimitivesFrom(1)

\* a key of the form Node_<digits> and the integer it names
isNodeDigitsKey(key) ==
  /\ Len(key) > Len(NodePrefix)
  /\ SubSeq(key, 1, Len(NodePrefix)) = NodePrefix
  /\ \A i \in (Len(NodePrefix) + 1)..Len(key) : IsDigit(key[i])
statedNodeId(key) ==
  IF isNodeDigitsKey(key)
  THEN DigitsValue(SubSeq(key, Len(NodePrefix) + 1, Len(key)), 0)
  ELSE 0

\* the output node of a non-root entry, with a given animation id when it has no layer
nodeOfEntry(e, id) ==
  IF imdlDoc.meshes.v[e.mesh].layer.k = "obj"
  THEN Node(NoId, imdlDoc.meshes.v[e.mesh].layer, parsePrimitives(imdlDoc, docPrimitivesOf(e)).v)
  ELSE Node(Id(id), NoId, parsePrimitives(imdlDoc, docPrimitivesOf(e)).v)

\* C25 as stated: without a timeline, every non-root entry with primitives gives
\* exactly one output node, a layer node without animation id when its mesh has a
\* layer, otherwise a node whose id is the integer of its Node_<digits> key, and 0 for
\* any other key; whatever the keys, the call ends with a document.
C25_AsStated ==
  (Done /\ DecodesWithoutAssertions /\ options.timeline.k = "none" /\ hasNodeRoot(docNodes))
    => /\ result.status = "Success"
       /\ Len(result.nodes) = Len(entriesWithPrimitives)
       /\ \A i \in 1..Len(entriesWithPrimitives) :
            entriesWithPrimitives[i].key # Node_Root
              => result.nodes[i] = nodeOfEntry(entriesWithPrimitives[i],
                                               statedNodeId(entriesWithPrimitives[i].key))

\* what of C25 holds: in a build without assertions the call ends with a document in
\* which every non-root entry with primitives has exactly one node; the id of a node
\* without layer is what parseInt reads after the first "Node_" of the key, the leading
\* digits of a suffix like "3a" included, and 0 when there is no such number
C25_WithoutAssertions ==
  (Done /\ DecodesWithoutAssertions /\ options.timeline.k = "none" /\ hasNodeRoot(docNodes)
        /\ ~options.asserts)
    => /\ result.status = "Success"
       /\ Len(result.nodes) = Len(entriesWithPrimitives)
       /\ \A i \in 1..Len(entriesWithPrimitives) :
            entriesWithPrimitives[i].key # Node_Root
              => result.nodes[i] = nodeOfEntry(entriesWithPrimitives[i],
                                               extractNodeId(entriesWithPrimitives[i].key, FALSE).v)

\* an assertion of extractNodeId ends the call: a key without number, assertions enabled
C25_SomeAssertionFailure ==
  /\ Done
  /\ DecodesWithoutAssertions
  /\ options.asserts
  /\ options.timeline.k = "none"
  /\ result = Status("InvalidTileData")
\* the id of a key with a suffix that is no number is not 0
C25_SomeLeadingDigits ==
  /\ Decoded
  /\ options.timeline.k = "none"
  /\ \E i \in 1..Len(entriesWithPrimitives) :
       /\ entriesWithPrimitives[i].key = Node_3a
       /\ result.nodes[i].animationNodeId = Id(3)


\* the feature table of a single-model tile, once parseFeatureTable has built it
SingleModelTable == featureTable.k = "table" /\ ~featureTable.multiModel
\* the scene's animationNodes descriptor cannot give an array
noIdArrayDescribed ==
  \/ ~IsDef(imdlDoc.animationNodes)
  \/ imdlDoc.animationNodes.v.bytesPerId \notin {1, 2, 4}
  \/ ~Has(imdlDoc.bufferViews, imdlDoc.animationNodes.v.bufferView)
\* the bytes of the binary chunk that the descriptor's buffer view covers
idBytes ==
  LET view == imdlDoc.bufferViews[imdlDoc.animationNodes.v.bufferView]
      binLen == Len(buffer) - gltfHeader.binaryPosition
      from == IF view.byteOffset < binLen THEN view.byteOffset ELSE binLen
      to == IF view.byteOffset + view.byteLength < binLen
            THEN view.byteOffset + view.byteLength ELSE binLen
  IN  IF to > from THEN to - from ELSE 0

\* C26 as stated: an animation-node-id array of a single-model feature table has
\* exactly numFeatures entries, of 1, 2 or 4 bytes; a descriptor with another width or
\* with a buffer view the scene does not have gives a table without array.
C26_AsStated ==
  (SingleModelTable /\ options.timeline.k = "none")
    => /\ IsDef(featureTable.animationNodeIds)
            => /\ featureTable.animationNodeIds.bytesPerId \in {1, 2, 4}
               /\ featureTable.animationNodeIds.length = featureTable.numFeatures
       /\ noIdArrayDescribed => ~IsDef(featureTable.animationNodeIds)

\* what of C26 holds: the array exists exactly when the descriptor names a width of
\* 1, 2 or 4 and a buffer view of the scene; its length is the number of whole ids in
\* the bytes the view covers, whatever the header's feature count
C26_SizedFromBufferView ==
  (SingleModelTable /\ options.timeline.k = "none")
    => /\ IsDef(featureTable.animationNodeIds) <=> ~noIdArrayDescribed
       /\ IsDef(featureTable.animationNodeIds)
            => /\ featureTable.animationNodeIds.bytesPerId = imdlDoc.animationNodes.v.bytesPerId
               /\ featureTable.animationNodeIds.length
                    = idBytes \div imdlDoc.animationNodes.v.bytesPerId

\* a decoded tile whose id array is shorter than its feature count
C26_SomeShortArray ==
  /\ Decoded
  /\ ~result.featureTable.multiModel
  /\ IsDef(result.featureTable.animationNodeIds)
  /\ result.featureTable.animationNodeIds.length < result.featureTable.numFeatures
\* a decoded tile whose descriptor gives no array
C26_SomeUnusableDescriptor ==
  /\ Decoded
  /\ ~result.featureTable.multiModel
  /\ IsDef(imdlDoc.animationNodes)
  /\ noIdArrayDescribed
  /\ ~IsDef(result.featureTable.animationNodeIds)


\* the words of the glTF chunk header of the tile: the version the constructor goes
\* by (after 59-60), the word after the scene-string length, and the two words read
\* after the JSON payload
chunkVersion == gltfHeaderOf(buffer).version
chunkValue5 == readUint32(buffer, gltfPosOf(buffer) + 16)
chunkBinaryLength ==
  readUint32(buffer, gltfPosOf(buffer) + 20 + gltfHeaderOf(buffer).sceneStrLength)
chunkBinaryType ==
  readUint32(buffer, gltfPosOf(buffer) + 24 + gltfHeaderOf(buffer).sceneStrLength)
chunksAsRequired ==
  /\ chunkValue5 = GltfV2ChunkTypes_JSON
  /\ chunkBinaryType = GltfV2ChunkTypes_Binary
  /\ chunkBinaryLength # 0
chunkHeaderRejected ==
  \/ chunkVersion = GltfVersions_Version2 /\ ~chunksAsRequired
  \/ chunkVersion \notin {GltfVersions_Version1, GltfVersions_Version2}
  \/ chunkVersion = GltfVersions_Version1 /\ chunkValue5 # GltfVersions_Gltf1SceneFormat

\* C27: a glTF chunk header that the constructor takes as version 2 is valid only if
\* the word before the JSON payload is the JSON tag, the chunk type after the payload
\* is the Binary tag and the binary length is not 0; when one of the three fails, or
\* the version is neither 1 nor 2, or a version-1 header has another word than the
\* scene-format sentinel, the header is invalid, the call ends with InvalidTileData,
\* and the scene string is never read.
C27_ChunkHeader ==
  FtHeaderRead =>
    /\ (chunkVersion = GltfVersions_Version2 /\ GltfHeader_isValid(gltfHeaderOf(buffer)))
         => chunksAsRequired
    /\ chunkHeaderRejected
         => /\ ~GltfHeader_isValid(gltfHeaderOf(buffer))
            /\ "scene" \notin readLog
            /\ sceneStr = InitialCall.sceneStr
            /\ imdlDoc = InitialCall.imdlDoc
            /\ Done => result = Status("InvalidTileData")

\* a version-2 header with both tags right and an empty binary chunk is rejected
C27_Witness ==
  /\ Done
  /\ FtHeaderRead
  /\ gltfHeader.version = GltfVersions_Version2
  /\ chunkValue5 = GltfV2ChunkTypes_JSON
  /\ chunkBinaryType = GltfV2ChunkTypes_Binary
  /\ chunkBinaryLength = 0
  /\ readUint32(buffer, gltfPosOf(buffer)) = TileFormat_Gltf
  /\ result = Status("InvalidTileData")
  /\ "gltfChunk2" \in readLog
C27_SomeWrongBinaryTag ==
  /\ Done
  /\ FtHeaderRead
  /\ gltfHeader.version = GltfVersions_Version2
  /\ chunkValue5 = GltfV2ChunkTypes_JSON
  /\ chunkBinaryType # GltfV2ChunkTypes_Binary
  /\ chunkBinaryLength # 0
  /\ result = Status("InvalidTileData")
C27_SomeWrongJsonTag ==
  /\ Done
  /\ FtHeaderRead
  /\ gltfHeader.version = GltfVersions_Version2
  /\ chunkValue5 # GltfV2ChunkTypes_JSON
  /\ chunkBinaryType = GltfV2ChunkTypes_Binary
  /\ chunkBinaryLength # 0
  /\ result = Status("InvalidTileData")
C27_SomeUnknownVersion ==
  /\ Done
  /\ FtHeaderRead
  /\ gltfHeader.version = 3
  /\ readUint32(buffer, gltfPosOf(buffer)) = TileFormat_Gltf
  /\ result = Status("InvalidTileData")
C27_SomeVersion1WithoutSentinel ==
  /\ Done
  /\ FtHeaderRead
  /\ gltfHeader.version = GltfVersions_Version1
  /\ chunkValue5 # GltfVersions_Gltf1SceneFormat
  /\ readUint32(buffer, gltfPosOf(buffer)) = TileFormat_Gltf
  /\ result = Status("InvalidTileData")
\* a valid version-2 header, whose scene string is read
C27_SomeValidVersion2 ==
  /\ Done
  /\ FtHeaderRead
  /\ gltfHeader.version = GltfVersions_Version2
  /\ chunksAsRequired
  /\ "scene" \in readLog



\* ---------------------------------------------------------------------------------
\* The links of the chain and its start joint

\* the start joint the code holds: the local start of a running pass (516, 581),
\* joint0 of the caller otherwise (654, 675)
startJoint == IF opc = "remove" THEN removal.start ELSE joint0
ChainConstructed == opc \in {"annotate", "passes", "remove", "collect", "wrap", "done"}

\* the joints met by following nextJoint from joint j in the heap js
RECURSIVE jointsFromIn(_, _, _)
jointsFromIn(js, j, seen) ==
  IF j = 0 \/ j \in seen THEN seen ELSE jointsFromIn(js, js[j].nextJoint, seen \cup {j})

linkedToNextIn(js, j) ==
  js[j].nextJoint # 0
    => /\ js[js[j].nextJoint].previousJoint = j
       /\ js[j].curve1 = js[js[j].nextJoint].curve0
linkedFrom(js, start) ==
  start # 0 => \A j \in jointsFromIn(js, start, {}) : linkedToNextIn(js, j)

\* the splices made so far, and those of them that were counted as removals (580)
splicesSoFar == Len(joints) - NumJointsBuilt
RECURSIVE countedInPasses(_)
countedInPasses(i) ==
  IF i = 0 THEN 0 ELSE trace.passes[i].numJointRemoved + countedInPasses(i - 1)
countedSoFar ==
  countedInPasses(Len(trace.passes)) + (IF opc = "remove" THEN removal.numRemoved ELSE 0)

\* a turn of the loop of removeDegeneratePrimitives that splices, and the joints its
\* new joint replaces
splices == opc = "remove" /\ Len(joints') > Len(joints)
doubleCutTaken == splices /\ secondCollapse
singleCutTaken == splices /\ ~secondCollapse
replacedJoints == IF secondCollapse THEN {jointA, jointB, jointC} ELSE {jointA, jointB}

\* C28 as stated: once the chain is constructed, and after every splice of the
\* degeneracy removal, every joint j reached from the start joint that has a next
\* joint n is the previous joint of n, and curve1 of j is the fragment that n holds
\* as curve0.
C28_AsStated == ChainConstructed => linkedFrom(joints, startJoint)

\* what of C28 holds: the chain is linked in this way from the start joint until the
\* first splice; and a splice at a joint of a linked chain leaves the chain linked
\* from the start joint provided the start joint is not among the joints replaced,
\* or is jointA of a single cut, where the start moves to the new joint
C28_LinkedUnlessStartReplaced ==
  [][ /\ (ChainConstructed /\ splicesSoFar = 0) => linkedFrom(joints, startJoint)
      /\ ( /\ splices
           /\ linkedFrom(joints, removal.start)
           /\ jointA \in jointsFromIn(joints, removal.start, {})
           /\ removal.start \notin replacedJoints \ (IF secondCollapse THEN {} ELSE {jointA}) )
           => linkedFrom(joints', removal'.start) ]_vars

\* a finished call whose chain is not linked from the start joint
C28_SomeBrokenChain ==
  /\ OffsetDone
  /\ ~linkedFrom(joints, joint0)
\* the same, in an open chain
C28_SomeBrokenOpenChain ==
  /\ OffsetDone
  /\ ~wrap
  /\ ~linkedFrom(joints, joint0)
\* the same, in a call that made single cuts only
C28_SomeBrokenBySingleCut ==
  /\ OffsetDone
  /\ splicesSoFar = countedSoFar
  /\ ~linkedFrom(joints, joint0)
\* a finished call that spliced and whose chain is linked from the start joint
C28_SomeLinkedAfterSplice ==
  /\ OffsetDone
  /\ splicesSoFar > 0
  /\ joint0 # 0
  /\ linkedFrom(joints, joint0)


\* collectStrokesFromChain has ended
walkEnds == opc = "collect" /\ opc' = "wrap"
jointsReached == jointsFromIn(joints, joint0, {})

\* C29 as stated: after a splice, of either branch, the start joint is none of the
\* joints the splice replaced; and the walk that collects the result from the start
\* joint visits every joint it reaches exactly once.
C29_AsStated ==
  [][ /\ splices => removal'.start \notin replacedJoints
      /\ walkEnds => trace'.collected = Cardinality(jointsReached) ]_vars

\* the two halves of C29, each on its own
C29_StartNotReplaced ==
  [][ splices => removal'.start \notin replacedJoints ]_vars
C29_WalkVisitsOnce ==
  [][ walkEnds => trace'.collected = Cardinality(jointsReached) ]_vars

\* what of C29 holds: a single cut whose jointA is the start joint moves the start to
\* the new joint, every other splice leaves the start as it is; and when the chain is
\* linked from the start joint the walk visits every joint of it exactly once
C29_StartMovesWithJointA ==
  [][ /\ splices => removal'.start = IF ~secondCollapse /\ jointA = removal.start
                                     THEN newJointId ELSE removal.start
      /\ (walkEnds /\ joint0 # 0 /\ linkedFrom(joints, joint0))
           => trace'.collected = Cardinality(jointsReached) ]_vars

\* the pass returns a start joint that a double cut has replaced
C29_SomeStartReplacedByDoubleCut ==
  /\ opc = "remove"
  /\ removal.start # 0
  /\ removal.numRemoved = 0
  /\ Len(joints) > NumJointsBuilt
  /\ trace.passes = <<>>
  /\ ~linkedFrom(joints, removal.start)
\* a single cut at the last joint of a closed chain has replaced the start joint as jointB
C29_SomeStartReplacedBySingleCut ==
  /\ opc = "remove"
  /\ removal.finished
  /\ removal.numRemoved = 1
  /\ splicesSoFar = countedSoFar
  /\ removal.start \in 1..NumJointsBuilt
  /\ ~linkedFrom(joints, removal.start)
\* a single cut at the start joint has moved the start to the new joint
C29_SomeStartMoved ==
  /\ opc = "remove"
  /\ removal.finished
  /\ removal.numRemoved = 1
  /\ removal.start = Len(joints)
  /\ linkedFrom(joints, removal.start)
\* a walk from a replaced start joint, which visits joints more than once
C29_SomeRepeatedVisits ==
  /\ OffsetDone
  /\ trace.collected > Cardinality(jointsReached)



\* ---------------------------------------------------------------------------------
\* The count a pass returns

passLoopEnded == opc \in {"collect", "wrap", "done"}
lastPass == trace.passes[Len(trace.passes)]

\* C30 as stated: a pass returns numJointRemoved 0 exactly when it spliced nothing, so
\* the pass loop does not end after a pass that changed the chain, unless it was the
\* fifth pass.
C30_AsStated ==
  /\ \A i \in 1..Len(trace.passes) :
       trace.passes[i].numJointRemoved = 0 <=> trace.passes[i].cuts = 0
  /\ (passLoopEnded /\ Len(trace.passes) < MaxPasses) => lastPass.cuts = 0

\* what of C30 holds: the count goes up by one at every single cut and at no other
\* turn of the loop, a double cut included; so a pass that spliced nothing returns 0,
\* and a pass that returns 0 made no single cut
C30_SingleCutsCounted ==
  [][ (opc = "remove" /\ opc' = "remove")
        => removal'.numRemoved = removal.numRemoved + (IF singleCutTaken THEN 1 ELSE 0) ]_vars

\* the pass loop has ended after a pass that returned 0 and changed the chain
C30_SomeEndAfterChange ==
  /\ OffsetDone
  /\ Len(trace.passes) < MaxPasses
  /\ lastPass.numJointRemoved = 0
  /\ lastPass.cuts > 0
\* a pass that returned 0 and left the chain as it was
C30_SomeUnchangedPass ==
  /\ OffsetDone
  /\ Len(trace.passes) > 1
  /\ lastPass.numJointRemoved = 0
  /\ lastPass.cuts = 0

====
